---- MODULE Spec2Model ----
(***************************************************************************)
(* Verification model of the Fixit Hero diagnosis pipeline:                *)
(*   - the AI gateway of services/geminiService.ts (tryWithFallback and    *)
(*     createChatSession.sendMessageStream),                               *)
(*   - the chat Scanner component (handleSend, handleSaveDiagnosis,        *)
(*     addPartsToShoppingList) in its two revisions,                       *)
(*   - the shopping-list service and the unique key of its table.          *)
(* Time is counted in ticks of one second.                                 *)
(***************************************************************************)
EXTENDS Integers, Sequences, FiniteSets, TLC

(***************************************************************************)
(* Bounds of the model.                                                    *)
(***************************************************************************)
\* number of sends (turns) a chat session may start
MaxSends == 3
\* last instant of the clock
MaxTime == 6
\* number of chunks of one complete model response
NChunks == 2
\* failed requests in one chat session
MaxFailures == 1
\* number of service calls made against the shopping-list table
MaxShopCalls == 2
\* largest quantity the card's plus button is followed to
MaxQuantity == 2
\* number of rows the table maintenance_tasks is followed to
MaxTasks == 2
\* number of calls made to the maintenance service
MaxMaintOps == 4
\* number of tokens of a model response handed to the extractor
MaxResponse == 4
\* latest due date handed to calculateTaskStatus, in ticks of six hours
MaxDue == 48
\* first year and number of years of the completion dates handed to calculateNextDue
FirstYear == 2023
MaxYears == 2

(***************************************************************************)
(* Program constants.                                                      *)
(***************************************************************************)
PRIMARY_MODEL == "gemini-2.5-flash"
FALLBACK_MODEL == "gemini-2.5-flash-lite"
maxRetries == 2
\* minDelay of the throttled Scanner, in seconds
minDelay == 3
\* fixed wait of the earlier Scanner revision, in seconds
legacyDelay == 2
\* messages.slice(-4)
historyWindow == 4

VARIABLES
  calls,            \* gateway calls: call id -> state of one tryWithFallback / sendMessageStream run
  chatHistory,      \* the history array of the `chat` object made by createChatSession
  sdkSharesHistory, \* whether startChat keeps the caller's history array (TRUE) or copies it
  variant,          \* which Scanner revision runs: "throttled" or "legacy"
  mounted,          \* the Scanner component is mounted
  now,              \* Date.now(), in seconds
  lastRequestTime,  \* Scanner ref lastRequestTime
  loading,          \* Scanner state
  isThinking,       \* Scanner state
  chatDisabled,     \* Scanner state
  inputText,        \* Scanner state: the text box holds text
  selectedImage,    \* Scanner state: an image is attached
  messages,         \* Scanner state: the transcript
  sends,            \* activations of handleSend: send id -> closure and position
  failures,         \* how many requests of the chat session have failed
  diagnosisResult,  \* Scanner state
  savedRepairId,    \* Scanner state
  partsQuantities,  \* Scanner state
  partsAdded,       \* Scanner state
  reportSave,       \* position of the handleSaveDiagnosis started by the report button
  shopPc,           \* position of addPartsToShoppingList
  shopClosure,      \* values captured by the running addPartsToShoppingList
  authUser,         \* the user supabase.auth.getUser() returns, "none" when signed out
  rows,             \* table shopping_list_items
  repairs,          \* ids of the rows of table repairs
  shopLog,          \* record of the last completed shopping-list operation
  svc,              \* running calls of the shopping-list service: call id -> state
  maintenanceTasks, \* table maintenance_tasks, in order of created_at
  maintenanceHistory, \* table maintenance_history
  maintLog,         \* record of the last operation of the maintenance service
  args,             \* arguments handed to the pure function under examination
  returned          \* what that function returned

gwVars == <<calls, chatHistory, sdkSharesHistory>>
chatVars == <<variant, mounted, now, lastRequestTime, loading, isThinking, chatDisabled,
              inputText, selectedImage, messages, sends, failures>>
cardVars == <<diagnosisResult, savedRepairId, partsQuantities, partsAdded, reportSave, shopPc,
              shopClosure>>
storeVars == <<authUser, rows, repairs, shopLog, svc>>
maintVars == <<maintenanceTasks, maintenanceHistory, maintLog>>
fnVars == <<args, returned>>
vars == <<calls, chatHistory, sdkSharesHistory, variant, mounted, now, lastRequestTime,
          loading, isThinking, chatDisabled, inputText, selectedImage, messages, sends, failures,
          diagnosisResult, savedRepairId, partsQuantities, partsAdded, reportSave, shopPc,
          shopClosure, authUser, rows, repairs, shopLog, svc, maintenanceTasks,
          maintenanceHistory, maintLog, args, returned>>

(***************************************************************************)
(* Errors of the AI endpoint: what the catch blocks look at is the status  *)
(* and the lower-cased message.                                            *)
(***************************************************************************)
Errors ==
  { [status |-> 429, message |-> "request failed"],
    [status |-> 503, message |-> "request failed"],
    [status |-> 0,   message |-> "quota exceeded"],
    [status |-> 0,   message |-> "requests per minute"],
    [status |-> 401, message |-> "api key not valid"],
    [status |-> 400, message |-> "request failed"] }

\* the errors with which a stream that has started is let to break: one that both
\* catch blocks take for transient and one that neither does
StreamBreakErrors ==
  { [status |-> 429, message |-> "request failed"],
    [status |-> 400, message |-> "request failed"] }

\* errorMsg.includes(word)
Includes(message, word) ==
  CASE message = "quota exceeded"      -> word \in {"quota", "exceeded"}
    [] message = "requests per minute" -> word \in {"per minute"}
    [] message = "Rate limit exceeded. Please wait 1-2 minutes before trying again."
                                       -> word \in {"rate", "limit", "rate limit", "exceeded"}
    [] OTHER                           -> FALSE

\* tryWithFallback: isTransient
isTransient(error) ==
  \/ error.status = 429
  \/ error.status = 503
  \/ Includes(error.message, "quota")
  \/ Includes(error.message, "limit")
  \/ Includes(error.message, "rate")

\* sendMessageStream: isRateLimit
isRateLimit(error) ==
  \/ error.status = 429
  \/ Includes(error.message, "quota")
  \/ Includes(error.message, "limit")
  \/ Includes(error.message, "rate")
  \/ Includes(error.message, "per minute")

\* the value of `raised` while nothing was thrown
NoError == [status |-> -1, message |-> ""]
\* the entry of `outs` for a request that was answered
OkOut == [status |-> 200, message |-> "ok", at |-> 0]

SingleCallers == {"analyzeImage", "analyzeImageWithDescription", "analyzeTextIssue",
                  "askClarifyingQuestion", "refineAnalysis"}

NoCall ==
  [path |-> "none", caller |-> "none", pc |-> "unused", modelName |-> PRIMARY_MODEL,
   retryCount |-> 0, toastId |-> FALSE, toast |-> "none", reqs |-> <<>>, outs |-> <<>>,
   waits |-> 0, switches |-> 0, chunkNo |-> 0, yielded |-> <<>>, sentHistory |-> <<>>,
   content |-> [turn |-> 0, image |-> FALSE], raised |-> NoError, result |-> <<"none", "">>]

\* the state of a call when tryWithFallback / sendMessageStream is entered
NewCall(path, caller, content) ==
  [NoCall EXCEPT !.path = path, !.caller = caller, !.pc = "attempt", !.content = content]

\* what an exported single-shot function hands to its caller when tryWithFallback throws
CallerCatch(caller, error) ==
  IF caller = "askClarifyingQuestion" THEN <<"cannedQuestion", "">>
  ELSE <<"Hero Brain Error", error.message>>

(***************************************************************************)
(* The steps of one call, as functions of the state of the call.           *)
(***************************************************************************)
\* One request is issued: model.generateContent(content) on the single-shot
\* path; on the streaming path a temporary chat is started with the history of
\* `chat` and tempChat.sendMessageStream(content) is called.
Issued(st, history) ==
  [st EXCEPT !.pc = "inflight",
             !.reqs = Append(@, st.modelName),
             !.chunkNo = 0,
             !.sentHistory = IF st.path = "stream" THEN history ELSE <<>>]

\* the request is answered without error: the single-shot call returns the
\* text, the streaming call starts to read the stream
Answered(st) ==
  IF st.path = "single"
  THEN [st EXCEPT !.pc = "returned",
                  !.outs = Append(@, OkOut),
                  !.toast = IF st.toastId THEN "dismissed" ELSE @,
                  !.result = <<"text", st.modelName>>]
  ELSE [st EXCEPT !.pc = "stream",
                  !.outs = Append(@, OkOut),
                  !.toast = IF st.toastId THEN "dismissed" ELSE @]

\* for await (const chunk of result.stream) yield chunk.text()
Yielded(st) ==
  [st EXCEPT !.chunkNo = @ + 1,
             !.yielded = Append(@, <<Len(st.reqs), st.chunkNo + 1>>)]

\* the stream is exhausted: return
Returned(st) ==
  [st EXCEPT !.pc = "returned", !.result = <<"stream", st.modelName>>]

\* The temporary chat records a completed turn in its history array, which is
\* the array of `chat` when the SDK keeps the reference it was given.
Recorded(history, st) ==
  IF sdkSharesHistory
  THEN history \o << [role |-> "user", turn |-> st.content.turn, image |-> st.content.image],
                     [role |-> "model", turn |-> st.content.turn, image |-> FALSE] >>
  ELSE history

\* SingleCatch with the retry not restricted to transient errors
SingleCatch_RetryAnyError(st, error) ==
  IF st.retryCount < maxRetries
  THEN [st EXCEPT !.pc = "wait", !.waits = @ + 1, !.toastId = TRUE,
                  !.toast = IF st.toastId THEN "retrying" ELSE "busy"]
  ELSE IF isTransient(error) /\ st.modelName = PRIMARY_MODEL
  THEN [st EXCEPT !.pc = "attempt", !.modelName = FALLBACK_MODEL, !.retryCount = 0,
                  !.toast = IF st.toastId THEN "switching" ELSE @,
                  !.switches = IF st.toastId THEN @ + 1 ELSE @]
  ELSE [st EXCEPT !.pc = "threw",
                  !.toast = IF st.toastId THEN "offline" ELSE @,
                  !.raised = error,
                  !.result = CallerCatch(st.caller, error)]

\* catch block of attemptRequest (single-shot path)
SingleCatch(st, error) ==
  IF isTransient(error) /\ st.retryCount < maxRetries
  THEN [st EXCEPT !.pc = "wait", !.waits = @ + 1, !.toastId = TRUE,
                  !.toast = IF st.toastId THEN "retrying" ELSE "busy"]
  ELSE IF isTransient(error) /\ st.modelName = PRIMARY_MODEL
  THEN [st EXCEPT !.pc = "attempt", !.modelName = FALLBACK_MODEL, !.retryCount = 0,
                  !.toast = IF st.toastId THEN "switching" ELSE @,
                  !.switches = IF st.toastId THEN @ + 1 ELSE @]
  ELSE [st EXCEPT !.pc = "threw",
                  !.toast = IF st.toastId THEN "offline" ELSE @,
                  !.raised = error,
                  !.result = CallerCatch(st.caller, error)]

\* StreamCatch with retryCount <= maxRetries as the retry condition
StreamCatch_OneRetryTooMany(st, error) ==
  IF isRateLimit(error) /\ st.retryCount <= maxRetries
  THEN [st EXCEPT !.pc = "wait", !.waits = @ + 1, !.toastId = TRUE,
                  !.toast = IF st.toastId THEN "waiting" ELSE "busy"]
  ELSE IF st.modelName = PRIMARY_MODEL /\ isRateLimit(error)
  THEN [st EXCEPT !.pc = "attempt", !.modelName = FALLBACK_MODEL, !.retryCount = 0,
                  !.toast = IF st.toastId THEN "switching" ELSE @,
                  !.switches = IF st.toastId THEN @ + 1 ELSE @]
  ELSE IF isRateLimit(error)
  THEN [st EXCEPT !.pc = "threw",
                  !.toast = IF st.toastId THEN "capacity" ELSE @,
                  !.raised = [status |-> 0,
                              message |-> "Rate limit exceeded. Please wait 1-2 minutes before trying again."]]
  ELSE [st EXCEPT !.pc = "threw",
                  !.toast = IF st.toastId THEN "error" ELSE @,
                  !.raised = [status |-> 0, message |-> error.message]]

\* StreamCatch with the backup-brain notice also used for the update of the
\* retry toast
StreamCatch_NoticeOnRetry(st, error) ==
  IF isRateLimit(error) /\ st.retryCount < maxRetries
  THEN [st EXCEPT !.pc = "wait", !.waits = @ + 1, !.toastId = TRUE,
                  !.toast = IF st.toastId THEN "switching" ELSE "busy",
                  !.switches = IF st.toastId THEN @ + 1 ELSE @]
  ELSE IF st.modelName = PRIMARY_MODEL /\ isRateLimit(error)
  THEN [st EXCEPT !.pc = "attempt", !.modelName = FALLBACK_MODEL, !.retryCount = 0,
                  !.toast = IF st.toastId THEN "switching" ELSE @,
                  !.switches = IF st.toastId THEN @ + 1 ELSE @]
  ELSE IF isRateLimit(error)
  THEN [st EXCEPT !.pc = "threw",
                  !.toast = IF st.toastId THEN "capacity" ELSE @,
                  !.raised = [status |-> 0,
                              message |-> "Rate limit exceeded. Please wait 1-2 minutes before trying again."]]
  ELSE [st EXCEPT !.pc = "threw",
                  !.toast = IF st.toastId THEN "error" ELSE @,
                  !.raised = [status |-> 0, message |-> error.message]]

\* catch block of sendMessageStream (streaming path)
StreamCatch(st, error) ==
  IF isRateLimit(error) /\ st.retryCount < maxRetries
  THEN [st EXCEPT !.pc = "wait", !.waits = @ + 1, !.toastId = TRUE,
                  !.toast = IF st.toastId THEN "waiting" ELSE "busy"]
  ELSE IF st.modelName = PRIMARY_MODEL /\ isRateLimit(error)
  THEN [st EXCEPT !.pc = "attempt", !.modelName = FALLBACK_MODEL, !.retryCount = 0,
                  !.toast = IF st.toastId THEN "switching" ELSE @,
                  !.switches = IF st.toastId THEN @ + 1 ELSE @]
  ELSE IF isRateLimit(error)
  THEN [st EXCEPT !.pc = "threw",
                  !.toast = IF st.toastId THEN "capacity" ELSE @,
                  !.raised = [status |-> 0,
                              message |-> "Rate limit exceeded. Please wait 1-2 minutes before trying again."]]
  ELSE [st EXCEPT !.pc = "threw",
                  !.toast = IF st.toastId THEN "error" ELSE @,
                  !.raised = [status |-> 0, message |-> error.message]]

\* the entry of `outs` for a request that failed with `error` after `at` chunks
Failure(error, at) == [status |-> error.status, message |-> error.message, at |-> at]

\* a request can fail when it is sent; a stream that was opened can break before
\* its last chunk
CanFail(st, error) ==
  \/ st.pc = "inflight"
  \/ st.pc = "stream" /\ st.chunkNo < NChunks /\ error \in StreamBreakErrors

\* the request, or the stream while it is being read, fails with `error`
Failed(st, error) ==
  IF st.path = "single"
  THEN SingleCatch([st EXCEPT !.outs = Append(@, Failure(error, 0))], error)
  ELSE StreamCatch([st EXCEPT !.outs =
                       IF st.pc = "stream"
                       THEN [@ EXCEPT ![Len(@)] = Failure(error, st.chunkNo)]
                       ELSE Append(@, Failure(error, 0))], error)

\* the backoff timer of wait(delay) fires: attemptRequest(modelName, retryCount + 1),
\* resp. retryCount++; continue
Resumed(st) == [st EXCEPT !.pc = "attempt", !.retryCount = @ + 1]

(***************************************************************************)
(* Initial values of the parts of the state.                               *)
(***************************************************************************)
CallIds == 0 .. MaxSends
SendIds == 1 .. MaxSends

NoSend ==
  [pc |-> "unused", text |-> FALSE, image |-> FALSE, history |-> <<>>, deadline |-> 0,
   dispatchedAt |-> 0, fullResponse |-> 0,
   quantities |-> {}]

\* addPartsToShoppingList is not running
NoClosure == [savedRepairId |-> 0, diagnosisResult |-> <<>>, quantities |-> <<>>]

\* no shopping-list operation has completed
NoLog == [op |-> "none", n |-> 0, user |-> "none", issueId |-> 0, items |-> <<>>,
          before |-> <<>>, after |-> <<>>]

\* the ids of the service calls that can run at the same time; the chat Scanner
\* uses call 1
SvcIds == 1 .. 2

\* no service call is running
NoSvc == [pc |-> "idle", op |-> "none", from |-> "none", user |-> "none", issueId |-> 0,
          items |-> <<>>, idx |-> 0, before |-> <<>>]

GwInit ==
  /\ chatHistory = <<>>
  /\ sdkSharesHistory \in BOOLEAN

ChatInit ==
  /\ mounted = TRUE
  /\ failures = 0
  /\ now = minDelay
  /\ lastRequestTime = 0
  /\ loading = FALSE
  /\ isThinking = FALSE
  /\ chatDisabled = FALSE
  /\ inputText = FALSE
  /\ selectedImage = FALSE
  /\ messages = <<>>
  /\ sends = [s \in SendIds |-> NoSend]

CardInit ==
  /\ diagnosisResult = <<>>
  /\ savedRepairId = 0
  /\ partsQuantities = <<>>
  /\ partsAdded = <<>>
  /\ reportSave = "idle"
  /\ shopPc = "idle"
  /\ shopClosure = NoClosure

StoreInit ==
  /\ authUser = "u1"
  /\ rows = <<>>
  /\ repairs = {}
  /\ shopLog = NoLog
  /\ svc = [k \in SvcIds |-> NoSvc]

\* the row the maintenance log holds before any operation has run
NoMaintLog == [op |-> "", n |-> 0, user |-> "none", id |-> 0, accesses |-> <<>>,
               before |-> <<>>, refused |-> FALSE, thrown |-> FALSE]

MaintInit ==
  /\ maintenanceTasks = <<>>
  /\ maintenanceHistory = <<>>
  /\ maintLog = NoMaintLog

FnInit ==
  /\ args = <<>>
  /\ returned = <<>>

(***************************************************************************)
(* SpecGateway: one call of the gateway, on either path, against an        *)
(* endpoint that answers or fails each request in any way.                 *)
(***************************************************************************)
InitGateway ==
  /\ GwInit
  /\ \E path \in {"single", "stream"}, caller \in SingleCallers :
       calls = [c \in CallIds |->
                  IF c = 0
                  THEN NewCall(path, IF path = "single" THEN caller ELSE "Scanner",
                               [turn |-> 1, image |-> FALSE])
                  ELSE NoCall]
  /\ variant = "throttled"
  /\ ChatInit
  /\ CardInit
  /\ StoreInit
  /\ MaintInit
  /\ FnInit

Request ==
  /\ calls[0].pc = "attempt"
  /\ calls' = [calls EXCEPT ![0] = Issued(calls[0], chatHistory)]
  /\ UNCHANGED <<chatHistory, sdkSharesHistory, chatVars, cardVars, storeVars, maintVars, fnVars>>

Respond ==
  /\ calls[0].pc = "inflight"
  /\ calls' = [calls EXCEPT ![0] = Answered(calls[0])]
  /\ UNCHANGED <<chatHistory, sdkSharesHistory, chatVars, cardVars, storeVars, maintVars, fnVars>>

Fail ==
  \E error \in Errors :
    /\ CanFail(calls[0], error)
    /\ calls' = [calls EXCEPT ![0] = Failed(calls[0], error)]
    /\ UNCHANGED <<chatHistory, sdkSharesHistory, chatVars, cardVars, storeVars, maintVars, fnVars>>

Yield ==
  /\ calls[0].pc = "stream"
  /\ calls[0].chunkNo < NChunks
  /\ calls' = [calls EXCEPT ![0] = Yielded(calls[0])]
  /\ UNCHANGED <<chatHistory, sdkSharesHistory, chatVars, cardVars, storeVars, maintVars, fnVars>>

StreamEnd ==
  /\ calls[0].pc = "stream"
  /\ calls[0].chunkNo = NChunks
  /\ calls' = [calls EXCEPT ![0] = Returned(calls[0])]
  /\ chatHistory' = Recorded(chatHistory, calls[0])
  /\ UNCHANGED <<sdkSharesHistory, chatVars, cardVars, storeVars, maintVars, fnVars>>

BackoffElapsed ==
  /\ calls[0].pc = "wait"
  /\ calls' = [calls EXCEPT ![0] = Resumed(calls[0])]
  /\ UNCHANGED <<chatHistory, sdkSharesHistory, chatVars, cardVars, storeVars, maintVars, fnVars>>

NextGateway ==
  \/ Request
  \/ Respond
  \/ Fail
  \/ Yield
  \/ StreamEnd
  \/ BackoffElapsed

SpecGateway == InitGateway /\ [][NextGateway]_vars

\* every request is answered, every backoff timer fires, the consumer keeps reading
SpecGatewayFair == SpecGateway /\ WF_vars(NextGateway)


(***************************************************************************)
(* Properties of the gateway.                                              *)
(***************************************************************************)
Ended(st) == st.pc \in {"returned", "threw"}

\* number of requests of the call that went to model m
ReqCount(st, m) == Cardinality({i \in 1 .. Len(st.reqs) : st.reqs[i] = m})

\* requests made to the model the call is using now
ReqsOnCurrentModel(st) == ReqCount(st, st.modelName)

RequestBudget(st) ==
  /\ ReqCount(st, PRIMARY_MODEL) <= maxRetries + 1
  /\ ReqCount(st, FALLBACK_MODEL) <= maxRetries + 1
  /\ Len(st.reqs) <= 2 * (maxRetries + 1)
  /\ \A i, j \in 1 .. Len(st.reqs) :
       (i < j /\ st.reqs[i] = FALLBACK_MODEL) => st.reqs[j] = FALLBACK_MODEL
  /\ st.retryCount <= maxRetries
  /\ ReqsOnCurrentModel(st) = st.retryCount + (IF st.pc = "attempt" THEN 0 ELSE 1)
  /\ Ended(st) => (st.pc = "returned") = (st.raised = NoError)

QuotaFailure(o) == o.status = 429 \/ Includes(o.message, "quota")

\* the primary model rejected each of its three requests with a quota error and
\* the fallback model answered its first request
PrimaryQuotaThenFallbackOk(st) ==
  /\ Len(st.reqs) = 4
  /\ Len(st.outs) = 4
  /\ \A i \in 1 .. 3 :
       st.reqs[i] = PRIMARY_MODEL /\ QuotaFailure(st.outs[i]) /\ st.outs[i].at = 0
  /\ st.reqs[4] = FALLBACK_MODEL
  /\ st.outs[4] = OkOut

NonTransientFailure(st, o) ==
  /\ o.status # 200
  /\ IF st.path = "single" THEN ~isTransient(o) ELSE ~isRateLimit(o)

\* C4: a request that fails with an error that is not transient ends the call
\* at once with that error raised; when it is the first request of the call,
\* exactly one request was issued, there was no backoff wait and the fallback
\* model was never tried.  Both paths.
C4_NonTransientFailsAtOnce ==
  \A c \in CallIds :
    LET st == calls[c] IN
    /\ (/\ st.outs # <<>>
        /\ Len(st.outs) = Len(st.reqs)
        /\ NonTransientFailure(st, st.outs[Len(st.outs)]))
       => /\ st.pc = "threw"
          /\ st.raised.message = st.outs[Len(st.outs)].message
    /\ (st.outs # <<>> /\ NonTransientFailure(st, st.outs[1]))
       => /\ st.pc = "threw"
          /\ Len(st.reqs) = 1
          /\ st.waits = 0
          /\ st.switches = 0
          /\ st.modelName = PRIMARY_MODEL

C4_Witness ==
  \E c \in CallIds :
    /\ calls[c].pc = "threw"
    /\ calls[c].path = "stream"
    /\ Len(calls[c].reqs) = 1
    /\ NonTransientFailure(calls[c], calls[c].outs[1])

\* what the caller of the exported function is left with when the call failed:
\* the returned text (single-shot), the message of the raised error (streaming)
\* and the final toast
Observable(st) ==
  <<st.path, st.result,
    IF st.path = "stream" THEN st.raised.message ELSE "", st.toast>>

\* the observables of a call of this path and caller that failed because both
\* models exhausted their retries on transient errors
CapacityObservables(path, caller) ==
  IF path = "single"
  THEN {<<"single", CallerCatch(caller, e), "", "offline">> : e \in {x \in Errors : isTransient(x)}}
  ELSE {<<"stream", <<"none", "">>,
          "Rate limit exceeded. Please wait 1-2 minutes before trying again.", "capacity">>}

\* C5: the failure a caller ends up with after both models exhausted their
\* retries is a capacity failure that can be told from the failure a
\* non-transient error produces.
C5_CapacityFailureDistinct ==
  \A c \in CallIds :
    LET st == calls[c] IN
    (/\ st.pc = "threw"
     /\ st.caller \in {"analyzeImage", "analyzeImageWithDescription", "analyzeTextIssue", "Scanner"}
     /\ NonTransientFailure(st, st.outs[Len(st.outs)]))
    => Observable(st) \notin CapacityObservables(st.path, st.caller)


(***************************************************************************)
(* The chat Scanner component.  variant = "throttled" is the revision with *)
(* isThinking and lastRequestTime, variant = "legacy" the revision whose   *)
(* only busy flag is loading and whose wait is keyed on the last message.  *)
(***************************************************************************)
\* the errors the endpoint answers with in a chat session
ChatErrors ==
  { [status |-> 429, message |-> "request failed"],
    [status |-> 401, message |-> "api key not valid"] }

\* a state setter of the component: React drops the update once the component is
\* unmounted
SetState(old, new) == IF mounted THEN new ELSE old

\* updated[updated.length - 1] = {...updated[updated.length - 1], text}
SetLastText(msgs, text) ==
  IF msgs = <<>> THEN msgs ELSE [msgs EXCEPT ![Len(msgs)].text = text]

\* the last n elements of a sequence: seq.slice(-n)
LastN(seq, n) ==
  IF Len(seq) <= n THEN seq ELSE SubSeq(seq, Len(seq) - n + 1, Len(seq))

HasText(m) == m.text # ""

HistoryEntry(m) ==
  [role |-> IF m.role = "user" THEN "user" ELSE "model", turn |-> m.turn, image |-> FALSE]

\* text-only history of the last four messages
buildMultimodalHistory(msgs) ==
  LET recent == SelectSeq(LastN(msgs, historyWindow), HasText)
  IN [i \in 1 .. Len(recent) |-> HistoryEntry(recent[i])]

\* the text the catch block of handleSend puts into the assistant message
ErrorText(error) ==
  IF \/ Includes(error.message, "rate limit")
     \/ Includes(error.message, "quota")
     \/ Includes(error.message, "capacity")
     \/ (variant = "throttled" /\ Includes(error.message, "exceeded"))
  THEN "capacity"
  ELSE "error"

\* the diagnosis extractDiagnosis finds in a completed response that has an
\* IDENTIFIED ISSUE header
ChatDiagnosis == [parts_needed |-> <<"washer">>, tools_needed |-> <<"wrench">>]

\* the elements of a sequence
Range(seq) == {seq[i] : i \in 1 .. Len(seq)}

\* [...diagnosis.parts_needed, ...diagnosis.tools_needed]
AllItems(diagnosis) == diagnosis.parts_needed \o diagnosis.tools_needed

\* setPartsQuantities(prev => ({...prev, ...initialQuantities})), where
\* initialQuantities gives 1 to the items that the closure's partsQuantities lacks
InitQuantities(prev, closureKeys, diagnosis) ==
  LET fresh == Range(AllItems(diagnosis)) \ closureKeys
  IN [i \in (DOMAIN prev) \cup fresh |-> IF i \in fresh THEN 1 ELSE prev[i]]

\* handleSend from the user message on: append the user message and the
\* placeholder, clear the inputs, set loading, call sendMessageStream(text, image)
Post(s, rec) ==
  /\ messages' = SetState(messages,
       messages \o << [role |-> "user", turn |-> s,
                       text |-> IF rec.text THEN "text" ELSE "",
                       image |-> rec.image, timestamp |-> now],
                      [role |-> "assistant", turn |-> s, text |-> "",
                       image |-> FALSE, timestamp |-> now] >>)
  /\ inputText' = SetState(inputText, FALSE)
  /\ selectedImage' = SetState(selectedImage, FALSE)
  /\ loading' = SetState(loading, TRUE)
  /\ calls' = [calls EXCEPT ![s] = NewCall("stream", "Scanner", [turn |-> s, image |-> rec.image])]
  /\ sends' = [sends EXCEPT ![s] = [rec EXCEPT !.pc = "gateway"]]

\* handleSend after the throttle: stamp lastRequestTime, compress an attached
\* image (throttled revision), then post
Begin(s, rec) ==
  IF variant = "throttled"
  THEN /\ lastRequestTime' = now
       /\ IF rec.image
          THEN /\ sends' = [sends EXCEPT ![s] = [rec EXCEPT !.pc = "compress", !.dispatchedAt = now]]
               /\ UNCHANGED <<messages, inputText, selectedImage, loading, calls, maintVars, fnVars>>
          ELSE Post(s, [rec EXCEPT !.dispatchedAt = now])
  ELSE /\ UNCHANGED lastRequestTime
       /\ Post(s, [rec EXCEPT !.dispatchedAt = now])

\* the send button is enabled (the input aside)
CanSend ==
  /\ mounted /\ ~chatDisabled
  /\ \E s \in SendIds : sends[s].pc = "unused"
  /\ IF variant = "throttled" THEN ~(loading \/ isThinking) ELSE ~loading

\* the user changes the text box: onChange sets inputText
TypeText(t) ==
  /\ CanSend
  /\ inputText # t
  /\ inputText' = t
  /\ UNCHANGED <<failures, variant, mounted, now, lastRequestTime, loading, isThinking, chatDisabled,
                 selectedImage, messages, sends, gwVars, cardVars, storeVars, maintVars, fnVars>>

\* the user attaches a photo (file input, camera) or removes it
SelectImage(i) ==
  /\ CanSend
  /\ selectedImage # i
  /\ selectedImage' = i
  /\ UNCHANGED <<failures, variant, mounted, now, lastRequestTime, loading, isThinking, chatDisabled,
                 inputText, messages, sends, gwVars, cardVars, storeVars, maintVars, fnVars>>

\* the send button or the Enter key: handleSend up to its first await
HandleSend(s) ==
  /\ CanSend
  /\ sends[s].pc = "unused"
  /\ \A r \in SendIds : r < s => sends[r].pc # "unused"
  /\ inputText \/ selectedImage
  /\ isThinking' = IF variant = "throttled" THEN TRUE ELSE isThinking
  /\ LET rec == [NoSend EXCEPT !.text = inputText, !.image = selectedImage,
                               !.history = IF variant = "throttled"
                                           THEN buildMultimodalHistory(messages) ELSE <<>>,
                               !.quantities = DOMAIN partsQuantities]
         mustWait == IF variant = "throttled"
                     THEN now - lastRequestTime < minDelay
                     ELSE messages # <<>> /\ now - messages[Len(messages)].timestamp < legacyDelay
         deadline == IF variant = "throttled"
                     THEN now + (minDelay - (now - lastRequestTime))
                     ELSE now + legacyDelay
     IN IF mustWait
        THEN /\ sends' = [sends EXCEPT ![s] = [rec EXCEPT !.pc = "throttle", !.deadline = deadline]]
             /\ UNCHANGED <<lastRequestTime, messages, inputText, selectedImage, loading, calls, maintVars, fnVars>>
        ELSE Begin(s, rec)
  /\ UNCHANGED <<failures, variant, mounted, now, chatDisabled, chatHistory, sdkSharesHistory,
                 cardVars, storeVars, maintVars, fnVars>>

\* the timer of the throttle wait fires
ThrottleElapsed(s) ==
  /\ sends[s].pc = "throttle"
  /\ now >= sends[s].deadline
  /\ Begin(s, sends[s])
  /\ UNCHANGED <<failures, variant, mounted, now, isThinking, chatDisabled, chatHistory, sdkSharesHistory,
                 cardVars, storeVars, maintVars, fnVars>>

\* compressImage resolves or rejects; either way the send goes on
CompressDone(s) ==
  /\ sends[s].pc = "compress"
  /\ Post(s, sends[s])
  /\ UNCHANGED <<failures, variant, mounted, now, lastRequestTime, isThinking, chatDisabled,
                 chatHistory, sdkSharesHistory, cardVars, storeVars, maintVars, fnVars>>

\* The request log of a call (reqs, outs, waits, switches, yielded) is not kept
\* in a chat session; the history a request carried is kept while it is in flight.
Quiet(st) ==
  [st EXCEPT !.reqs = <<>>, !.outs = <<>>, !.waits = 0, !.switches = 0, !.yielded = <<>>,
             !.sentHistory = IF st.pc = "inflight" THEN @ ELSE <<>>]

\* the generator issues a request
ChatRequest(s) ==
  /\ sends[s].pc = "gateway"
  /\ calls[s].pc = "attempt"
  /\ calls' = [calls EXCEPT ![s] = Quiet(Issued(calls[s], chatHistory))]
  /\ UNCHANGED <<chatHistory, sdkSharesHistory, chatVars, cardVars, storeVars, maintVars, fnVars>>

\* the endpoint accepts the request and the stream opens
ChatRespond(s) ==
  /\ sends[s].pc = "gateway"
  /\ calls[s].pc = "inflight"
  /\ calls' = [calls EXCEPT ![s] = Quiet(Answered(calls[s]))]
  /\ UNCHANGED <<chatHistory, sdkSharesHistory, chatVars, cardVars, storeVars, maintVars, fnVars>>

\* a backoff timer of the generator fires
ChatBackoffElapsed(s) ==
  /\ sends[s].pc = "gateway"
  /\ calls[s].pc = "wait"
  /\ calls' = [calls EXCEPT ![s] = Quiet(Resumed(calls[s]))]
  /\ UNCHANGED <<chatHistory, sdkSharesHistory, chatVars, cardVars, storeVars, maintVars, fnVars>>

\* ChatChunk with the extractor run on every chunk
ChatChunk_ExtractsPerChunk(s) ==
  /\ sends[s].pc = "gateway"
  /\ calls[s].pc = "stream"
  /\ calls[s].chunkNo < NChunks
  /\ calls' = [calls EXCEPT ![s] = Quiet(Yielded(calls[s]))]
  /\ sends' = [sends EXCEPT ![s].fullResponse = @ + 1]
  /\ messages' = SetState(messages, SetLastText(messages, "final"))
  /\ UNCHANGED <<failures, variant, mounted, now, lastRequestTime, loading, isThinking, chatDisabled,
                 inputText, selectedImage, chatHistory, sdkSharesHistory, cardVars, storeVars, maintVars, fnVars>>

\* one chunk arrives: fullResponse += chunk; the last message shows fullResponse
ChatChunk(s) ==
  /\ sends[s].pc = "gateway"
  /\ calls[s].pc = "stream"
  /\ calls[s].chunkNo < NChunks
  /\ calls' = [calls EXCEPT ![s] = Quiet(Yielded(calls[s]))]
  /\ sends' = [sends EXCEPT ![s].fullResponse = @ + 1]
  /\ messages' = SetState(messages, SetLastText(messages, "partial"))
  /\ UNCHANGED <<failures, variant, mounted, now, lastRequestTime, loading, isThinking, chatDisabled,
                 inputText, selectedImage, chatHistory, sdkSharesHistory, cardVars, storeVars, maintVars, fnVars>>

\* what is left of a send when handleSend has returned
Finished(rec) == [NoSend EXCEPT !.pc = "done", !.dispatchedAt = rec.dispatchedAt]

\* the request or the stream fails.  When the generator throws, the catch block
\* of handleSend writes the error text and the finally block clears the flags.
ChatFail(s, error) ==
  /\ sends[s].pc = "gateway"
  /\ CanFail(calls[s], error)
  /\ failures < MaxFailures
  /\ failures' = failures + 1
  /\ LET after == Failed(calls[s], error)
     IN IF after.pc = "threw"
        THEN /\ calls' = [calls EXCEPT ![s] = NoCall]
             /\ sends' = [sends EXCEPT ![s] = Finished(sends[s])]
             /\ messages' = SetState(messages, SetLastText(messages, ErrorText(after.raised)))
             /\ loading' = SetState(loading, FALSE)
             /\ isThinking' = IF variant = "throttled" THEN SetState(isThinking, FALSE)
                              ELSE isThinking
        ELSE /\ calls' = [calls EXCEPT ![s] = Quiet(after)]
             /\ UNCHANGED <<sends, messages, loading, isThinking, maintVars, fnVars>>
  /\ UNCHANGED <<variant, mounted, now, lastRequestTime, chatDisabled, inputText, selectedImage,
                 chatHistory, sdkSharesHistory, cardVars, storeVars, maintVars, fnVars>>

\* the stream ends: extractDiagnosis(fullResponse) runs, a diagnosis that was
\* found is stored with its quantities, the last message gets the cleaned text,
\* the finally block clears the flags
ChatStreamEnd(s, found) ==
  /\ sends[s].pc = "gateway"
  /\ calls[s].pc = "stream"
  /\ calls[s].chunkNo = NChunks
  /\ chatHistory' = Recorded(chatHistory, calls[s])
  /\ calls' = [calls EXCEPT ![s] = NoCall]
  /\ sends' = [sends EXCEPT ![s] = Finished(sends[s])]
  /\ messages' = SetState(messages, SetLastText(messages, "final"))
  /\ loading' = SetState(loading, FALSE)
  /\ isThinking' = IF variant = "throttled" THEN SetState(isThinking, FALSE) ELSE isThinking
  /\ IF found
     THEN /\ diagnosisResult' = SetState(diagnosisResult, <<ChatDiagnosis>>)
          /\ partsAdded' = SetState(partsAdded, <<>>)
          /\ partsQuantities' = SetState(partsQuantities,
               InitQuantities(partsQuantities, sends[s].quantities, ChatDiagnosis))
     ELSE UNCHANGED <<diagnosisResult, partsAdded, partsQuantities, maintVars, fnVars>>
  /\ UNCHANGED <<failures, variant, mounted, now, lastRequestTime, chatDisabled, inputText, selectedImage,
                 sdkSharesHistory, savedRepairId, reportSave, shopPc, shopClosure, storeVars, maintVars, fnVars>>

\* the view changes and the Scanner is unmounted; the component registers no
\* cleanup
Unmount ==
  /\ mounted
  /\ mounted' = FALSE
  /\ UNCHANGED <<failures, variant, now, lastRequestTime, loading, isThinking, chatDisabled, inputText,
                 selectedImage, messages, sends, gwVars, cardVars, storeVars, maintVars, fnVars>>

\* A second passes.  The clock is read by handleSend only, so it is advanced
\* while a send waits for its throttle timer, or between two sends.
Tick ==
  /\ now < MaxTime
  /\ \/ \E s \in SendIds : sends[s].pc = "throttle"
     \/ /\ sends[1].pc # "unused"
        /\ CanSend
        /\ \A s \in SendIds : sends[s].pc \in {"unused", "done"}
  /\ now' = now + 1
  /\ UNCHANGED <<failures, variant, mounted, lastRequestTime, loading, isThinking, chatDisabled, inputText,
                 selectedImage, messages, sends, gwVars, cardVars, storeVars, maintVars, fnVars>>


(***************************************************************************)
(* Saving the diagnosis (services/repairService: saveRepairDiagnosis) and  *)
(* the report button of the Scanner.                                       *)
(***************************************************************************)
\* the id the store gives to the next row of table repairs
NewRepairId == Cardinality(repairs) + 1

\* saveRepairDiagnosis: the id of the saved repair, 0 for null (no user, or the
\* insert failed)
SavedId(insertOk) == IF authUser # "none" /\ insertOk THEN NewRepairId ELSE 0

\* "Generate Hero Report": show the card, disable the chat, handleSaveDiagnosis
\* up to its await
GenerateReport ==
  /\ mounted
  /\ diagnosisResult # <<>>
  /\ ~chatDisabled
  /\ chatDisabled' = TRUE
  /\ loading' = TRUE
  /\ reportSave' = "saving"
  /\ UNCHANGED <<failures, variant, mounted, now, lastRequestTime, isThinking, inputText, selectedImage,
                 messages, sends, gwVars, diagnosisResult, savedRepairId, partsQuantities,
                 partsAdded, shopPc, shopClosure, storeVars, maintVars, fnVars>>

\* saveRepairDiagnosis returns to the handleSaveDiagnosis of the report button
ReportSaveDone(insertOk) ==
  /\ reportSave = "saving"
  /\ reportSave' = "idle"
  /\ repairs' = IF SavedId(insertOk) # 0 THEN repairs \cup {NewRepairId} ELSE repairs
  /\ savedRepairId' = IF SavedId(insertOk) # 0 THEN SetState(savedRepairId, NewRepairId)
                      ELSE savedRepairId
  /\ loading' = SetState(loading, FALSE)
  /\ UNCHANGED <<failures, variant, mounted, now, lastRequestTime, isThinking, chatDisabled, inputText,
                 selectedImage, messages, sends, gwVars, diagnosisResult, partsQuantities,
                 partsAdded, shopPc, shopClosure, authUser, rows, shopLog, svc, maintVars, fnVars>>

(***************************************************************************)
(* SpecChat: a chat session of the Scanner with its streaming gateway.     *)
(* The user composes a message (types, attaches a photo) and sends it; the *)
(* report card is left to SpecShop.                                        *)
(***************************************************************************)
InitChat ==
  /\ GwInit
  /\ calls = [c \in CallIds |-> NoCall]
  /\ variant \in {"throttled", "legacy"}
  /\ ChatInit
  /\ CardInit
  /\ StoreInit
  /\ MaintInit
  /\ FnInit

NextChat ==
  \/ \E t \in {TRUE} : TypeText(t)
  \/ \E i \in {TRUE} : SelectImage(i)
  \/ \E s \in SendIds : HandleSend(s)
  \/ \E s \in SendIds : ThrottleElapsed(s)
  \/ \E s \in SendIds : CompressDone(s)
  \/ \E s \in SendIds : ChatRequest(s)
  \/ \E s \in SendIds : ChatRespond(s)
  \/ \E s \in SendIds : ChatChunk(s)
  \/ \E s \in SendIds, error \in ChatErrors : ChatFail(s, error)
  \/ \E s \in SendIds : ChatBackoffElapsed(s)
  \/ \E s \in SendIds, found \in BOOLEAN : ChatStreamEnd(s, found)
  \/ Unmount
  \/ Tick

SpecChat == InitChat /\ [][NextChat]_vars

(***************************************************************************)
(* Properties of the chat session.                                         *)
(***************************************************************************)
\* handleSend has accepted the send and has not reached the end of its finally block
Active(s) == sends[s].pc \notin {"unused", "done"}

\* C1: at most one send of a chat session is between its start (throttle wait
\* and retries included) and its completion or failure; no two sends overlap.
C1_OneSendAtATime ==
  \A s, r \in SendIds : (s # r) => ~(Active(s) /\ Active(r))

\* the send has passed the throttle and gone on to the gateway
Dispatched(s) == sends[s].pc \in {"compress", "gateway", "done"}

\* the minimum interval of the running revision
Interval == IF variant = "throttled" THEN minDelay ELSE legacyDelay

\* C6: of two consecutive sends of a session the second is dispatched no earlier
\* than the minimum interval after the first was dispatched (a send that comes
\* sooner waits for the rest of the interval).
C6_MinimumInterval ==
  \A s \in SendIds :
    (s > 1 /\ Dispatched(s) /\ Dispatched(s - 1))
        => sends[s].dispatchedAt - sends[s - 1].dispatchedAt >= Interval

\* the messages of the session that belong to the turns before turn s
EarlierTurn(s, msgs) ==
  LET Before(m) == m.turn < s IN SelectSeq(msgs, Before)

\* the text of the last n messages as context: text only, in order
RecentText(msgs, n) ==
  LET recent == SelectSeq(LastN(msgs, n), HasText)
  IN [i \in 1 .. Len(recent) |-> HistoryEntry(recent[i])]

\* C7: on a turn after the first the request that reaches the model carries the
\* text of the most recent messages, in order, limited to a window of 4 to 6
\* messages, and no image of an earlier turn.
C7_ContextIsRecentText ==
  \A s \in SendIds :
    (/\ sends[s].pc = "gateway"
     /\ calls[s].pc = "inflight"
     /\ EarlierTurn(s, messages) # <<>>)
        => \E n \in 4 .. 6 : calls[s].sentHistory = RecentText(EarlierTurn(s, messages), n)

\* a throttle timer of handleSend or a backoff timer of the generator is pending
TimerPending ==
  \E s \in SendIds : sends[s].pc = "throttle" \/ (sends[s].pc = "gateway" /\ calls[s].pc = "wait")

\* C8: once the chat UI is torn down no throttle or backoff timer of a turn is
\* pending, no further chunk is delivered and no error is thrown.
C8_TeardownStopsTurn ==
  [][ /\ (~mounted') => ~TimerPending'
      /\ (~mounted) =>
           \A s \in SendIds :
             /\ sends'[s].fullResponse <= sends[s].fullResponse
             /\ (sends[s].pc = "gateway" /\ sends'[s].pc = "done")
                  => (calls[s].pc = "stream" /\ calls[s].chunkNo = NChunks) ]_vars

(***************************************************************************)
(* Table shopping_list_items and the shopping-list service                 *)
(* (services/shoppingListService).                                         *)
(***************************************************************************)
\* 'general', the issue id addManualShoppingListItem falls back to; it is no UUID
general == -1

\* column issue_id is of type UUID; the ids of saved repairs are UUIDs
IsUuid(id) == id > 0

\* UNIQUE(user_id, issue_id, name)
Key(row) == <<row.user_id, row.issue_id, row.name>>

\* The error code of inserting `batch` into `table` in one statement, "" when the
\* statement succeeds: a value that is no UUID is rejected (22P02), a key that
\* exists or occurs twice in the batch violates the unique constraint (23505).
InsertError(table, batch) ==
  IF \E i \in 1 .. Len(batch) : ~IsUuid(batch[i].issue_id)
  THEN "22P02"
  ELSE IF \/ \E i \in 1 .. Len(batch), j \in 1 .. Len(table) : Key(batch[i]) = Key(table[j])
          \/ \E i, j \in 1 .. Len(batch) : i # j /\ Key(batch[i]) = Key(batch[j])
       THEN "23505"
       ELSE ""

\* the table after the statement: all rows of the batch or none
Inserted(table, batch) == IF InsertError(table, batch) = "" THEN table \o batch ELSE table

\* String.prototype.trim on the names used here
Trim(name) ==
  CASE name = " washer" -> "washer"
    [] name = " "       -> ""
    [] OTHER            -> name

\* a part given as a string becomes {name: part.trim(), quantity: 1}, an object is
\* taken as it is
Normalise(part) ==
  IF part.kind = "string"
  THEN [name |-> Trim(part.name), quantity |-> 1]
  ELSE [name |-> part.name, quantity |-> part.quantity]

NonEmptyName(item) == item.name # ""

\* parts.map(...).filter(item => item.name.length > 0)
ItemsToAdd(parts) ==
  SelectSeq([i \in 1 .. Len(parts) |-> Normalise(parts[i])], NonEmptyName)

\* the rows the service sends to the table
NewItems(user, issueId, issueTitle, items) ==
  [i \in 1 .. Len(items) |->
     [user_id |-> user, issue_id |-> issueId, issue_title |-> issueTitle,
      name |-> items[i].name, completed |-> FALSE, quantity |-> items[i].quantity]]

\* addToIssueShoppingList(issueId, issueTitle, parts) up to its insert.  `parts`
\* is undefined when the caller passes two arguments: parts.map then throws a
\* TypeError, which the catch block of the function swallows.
AddToIssueCall(from, issueId, issueTitle, parts) ==
  LET base == [NoSvc EXCEPT !.op = "addToIssueShoppingList", !.from = from,
                            !.user = authUser, !.issueId = issueId, !.before = rows]
      items == ItemsToAdd(parts.items)
  IN IF authUser = "none" \/ ~parts.defined \/ items = <<>>
     THEN [base EXCEPT !.pc = "return"]
     ELSE [base EXCEPT !.pc = "batch",
                       !.items = NewItems(authUser, issueId, issueTitle, items)]

\* addManualShoppingListItem(name, quantity, issueId, issueTitle) up to its
\* insert; issueId 0 stands for an omitted issueId
AddManualCall(from, name, quantity, issueId, issueTitle) ==
  LET base == [NoSvc EXCEPT !.op = "addManualShoppingListItem", !.from = from,
                            !.user = authUser, !.before = rows,
                            !.issueId = IF issueId = 0 THEN general ELSE issueId]
  IN IF authUser = "none"
     THEN [base EXCEPT !.pc = "return"]
     ELSE [base EXCEPT !.pc = "insert",
                       !.items = NewItems(authUser, base.issueId,
                                          IF issueId = 0 THEN "General Items" ELSE issueTitle,
                                          << [name |-> Trim(name), quantity |-> quantity] >>)]

\* a batch that fails is given up
AfterBatch_NoFallback(error) == "return"

\* where addToIssueShoppingList goes on after the batch insert: a duplicate key
\* error makes it insert the items one by one
AfterBatch(error) == IF error = "23505" THEN "single" ELSE "return"

\* the answer to the batch insert of addToIssueShoppingList arrives
SvcBatch(k) ==
  /\ svc[k].pc = "batch"
  /\ rows' = Inserted(rows, svc[k].items)
  /\ svc' = [svc EXCEPT ![k].pc = AfterBatch(InsertError(rows, svc[k].items)),
                        ![k].idx = 1]
  /\ UNCHANGED <<authUser, repairs, shopLog, gwVars, chatVars, cardVars, maintVars, fnVars>>

\* one insert of the item-by-item loop: a duplicate is skipped
SvcSingle(k) ==
  /\ svc[k].pc = "single"
  /\ rows' = Inserted(rows, << svc[k].items[svc[k].idx] >>)
  /\ svc' = [svc EXCEPT ![k].idx = @ + 1,
                        ![k].pc = IF svc[k].idx = Len(svc[k].items) THEN "return" ELSE "single"]
  /\ UNCHANGED <<authUser, repairs, shopLog, gwVars, chatVars, cardVars, maintVars, fnVars>>

\* the answer to the insert of addManualShoppingListItem arrives
SvcInsert(k) ==
  /\ svc[k].pc = "insert"
  /\ rows' = Inserted(rows, svc[k].items)
  /\ svc' = [svc EXCEPT ![k].pc = "return"]
  /\ UNCHANGED <<authUser, repairs, shopLog, gwVars, chatVars, cardVars, maintVars, fnVars>>

\* the record of a service call that returns
Completed(call, n) ==
  [op |-> call.op, n |-> n, user |-> call.user, issueId |-> call.issueId,
   items |-> call.items, before |-> call.before, after |-> rows]

\* the parts a caller other than the Scanner passes
PartsInputs ==
  { << [kind |-> "object", name |-> "washer", quantity |-> 2] >>,
    << [kind |-> "object", name |-> "washer", quantity |-> 1],
       [kind |-> "object", name |-> "wrench", quantity |-> 1] >>,
    << [kind |-> "string", name |-> " washer", quantity |-> 0],
       [kind |-> "string", name |-> "washer", quantity |-> 0] >>,
    << [kind |-> "string", name |-> " ", quantity |-> 0],
       [kind |-> "object", name |-> "wrench", quantity |-> 2] >> }

\* issues a caller other than the chat Scanner adds to
IssueIds == {1, 2}

\* names typed into the shopping list page
ManualNames == {"washer", " washer"}

\* the users of the application, "none" for a signed-out session
Users == {"none", "u1", "u2"}

\* a caller other than the chat Scanner calls addToIssueShoppingList with its
\* three arguments
CallAddToIssue(k, issueId, parts) ==
  /\ svc[k].pc = "idle"
  /\ shopPc = "idle"
  /\ shopLog.n < MaxShopCalls
  /\ svc' = [svc EXCEPT ![k] = AddToIssueCall("other", issueId, "Leaky faucet",
                                              [defined |-> TRUE, items |-> parts])]
  /\ shopLog' = [shopLog EXCEPT !.n = @ + 1]
  /\ UNCHANGED <<authUser, rows, repairs, gwVars, chatVars, cardVars, maintVars, fnVars>>

\* the shopping list page adds an item: addManualShoppingListItem(name, quantity,
\* issueId, issueTitle), with the issue left out for a general item
CallAddManual(k, name, quantity, issueId) ==
  /\ svc[k].pc = "idle"
  /\ shopPc = "idle"
  /\ shopLog.n < MaxShopCalls
  /\ svc' = [svc EXCEPT ![k] = AddManualCall("ShoppingList", name, quantity, issueId,
                                             "Leaky faucet")]
  /\ shopLog' = [shopLog EXCEPT !.n = @ + 1]
  /\ UNCHANGED <<authUser, rows, repairs, gwVars, chatVars, cardVars, maintVars, fnVars>>

\* a call of a caller other than the chat Scanner returns
SvcReturn(k) ==
  /\ svc[k].pc = "return"
  /\ svc[k].from # "Scanner"
  /\ svc' = [svc EXCEPT ![k] = NoSvc]
  /\ shopLog' = Completed(svc[k], shopLog.n)
  /\ UNCHANGED <<authUser, rows, repairs, gwVars, chatVars, cardVars, maintVars, fnVars>>

\* Another user signs in, or the user signs out, while no write is under way.
\* The Scanner is a protected view: without a user the application shows the
\* home page instead.
SignIn(user) ==
  /\ authUser # user
  /\ \A k \in SvcIds : svc[k].pc = "idle"
  /\ reportSave = "idle" /\ shopPc = "idle"
  /\ authUser' = user
  /\ mounted' = IF user = "none" THEN FALSE ELSE mounted
  /\ UNCHANGED <<failures, variant, now, lastRequestTime, loading, isThinking, chatDisabled,
                 inputText, selectedImage, messages, sends, rows, repairs, shopLog, svc, gwVars,
                 cardVars, maintVars, fnVars>>

(***************************************************************************)
(* The diagnosis card of the Scanner (DiagnosisSummaryCard) and            *)
(* addPartsToShoppingList.                                                 *)
(***************************************************************************)
\* the card is shown once the report button has set showDiagnosisCard, which it
\* sets together with chatDisabled
showDiagnosisCard == chatDisabled

\* partsQuantities[item] || 1
Quantity(quantities, item) == IF item \in DOMAIN quantities THEN quantities[item] ELSE 1

\* {...prev, [item]: quantity}
WithQuantity(prev, item, quantity) ==
  [i \in (DOMAIN prev) \cup {item} |-> IF i = item THEN quantity ELSE prev[i]]

\* the plus button of an item: onUpdateQuantity(item, currentQuantity + 1)
Increment(item) ==
  /\ mounted /\ showDiagnosisCard /\ diagnosisResult # <<>>
  /\ item \in Range(AllItems(diagnosisResult[1]))
  /\ Quantity(partsQuantities, item) < MaxQuantity
  /\ partsQuantities' = WithQuantity(partsQuantities, item, Quantity(partsQuantities, item) + 1)
  /\ UNCHANGED <<diagnosisResult, savedRepairId, partsAdded, reportSave, shopPc, shopClosure,
                 gwVars, chatVars, storeVars, maintVars, fnVars>>

\* the minus button of an item, disabled at quantity 1:
\* onUpdateQuantity(item, Math.max(1, currentQuantity - 1))
Decrement(item) ==
  /\ mounted /\ showDiagnosisCard /\ diagnosisResult # <<>>
  /\ item \in Range(AllItems(diagnosisResult[1]))
  /\ Quantity(partsQuantities, item) > 1
  /\ partsQuantities' = WithQuantity(partsQuantities, item, Quantity(partsQuantities, item) - 1)
  /\ UNCHANGED <<diagnosisResult, savedRepairId, partsAdded, reportSave, shopPc, shopClosure,
                 gwVars, chatVars, storeVars, maintVars, fnVars>>

\* the remove button of an item: removePart deletes its quantity
removePart(item) ==
  /\ mounted /\ showDiagnosisCard /\ diagnosisResult # <<>>
  /\ item \in Range(AllItems(diagnosisResult[1]))
  /\ item \in DOMAIN partsQuantities
  /\ partsQuantities' = [i \in (DOMAIN partsQuantities) \ {item} |-> partsQuantities[i]]
  /\ UNCHANGED <<diagnosisResult, savedRepairId, partsAdded, reportSave, shopPc, shopClosure,
                 gwVars, chatVars, storeVars, maintVars, fnVars>>

\* allItems.map(item => ({name: item, quantity: partsQuantities[item] || 1}))
itemsWithQuantities(closure) ==
  LET allItems == AllItems(closure.diagnosisResult[1])
  IN [i \in 1 .. Len(allItems) |->
        [kind |-> "object", name |-> allItems[i],
         quantity |-> Quantity(closure.quantities, allItems[i])]]

\* the record of an addPartsToShoppingList that has run to its end: the rows it
\* was to create are `items`
AddPartsDone(closure, n) ==
  [op |-> "addPartsToShoppingList", n |-> n, user |-> authUser,
   issueId |-> closure.savedRepairId,
   items |-> NewItems(authUser, closure.savedRepairId, "Leaky faucet",
                      ItemsToAdd(itemsWithQuantities(closure))),
   before |-> rows, after |-> rows]

\* the "Add to Shopping List" button: addPartsToShoppingList up to its first
\* await.  The function works on the values of the render in which the button
\* was clicked.
AddPartsClick ==
  /\ mounted /\ showDiagnosisCard /\ diagnosisResult # <<>>
  /\ diagnosisResult[1].parts_needed # <<>>
  /\ partsAdded = <<>>
  /\ shopPc = "idle"
  /\ shopLog.n < MaxShopCalls
  /\ shopClosure' = [savedRepairId |-> savedRepairId, diagnosisResult |-> diagnosisResult,
                     quantities |-> partsQuantities]
  /\ shopLog' = [shopLog EXCEPT !.n = @ + 1]
  /\ IF savedRepairId = 0
     THEN /\ shopPc' = "saving"
          /\ loading' = TRUE
     ELSE /\ shopPc' = "timer"
          /\ UNCHANGED loading
  /\ UNCHANGED <<failures, variant, mounted, now, lastRequestTime, isThinking, chatDisabled,
                 inputText, selectedImage, messages, sends, gwVars, diagnosisResult,
                 savedRepairId, partsQuantities, partsAdded, reportSave, authUser, rows,
                 repairs, svc, maintVars, fnVars>>

\* saveRepairDiagnosis returns to the handleSaveDiagnosis that
\* addPartsToShoppingList awaits; then setTimeout(..., 100)
AddPartsSaveDone(insertOk) ==
  /\ shopPc = "saving"
  /\ shopPc' = "timer"
  /\ repairs' = IF SavedId(insertOk) # 0 THEN repairs \cup {NewRepairId} ELSE repairs
  /\ savedRepairId' = IF SavedId(insertOk) # 0 THEN SetState(savedRepairId, NewRepairId)
                      ELSE savedRepairId
  /\ loading' = SetState(loading, FALSE)
  /\ UNCHANGED <<failures, variant, mounted, now, lastRequestTime, isThinking, chatDisabled,
                 inputText, selectedImage, messages, sends, gwVars, diagnosisResult,
                 partsQuantities, partsAdded, reportSave, shopClosure, authUser, rows,
                 shopLog, svc, maintVars, fnVars>>

\* The timer fires.  Without a repair id in the closure the callback returns;
\* otherwise it calls addToIssueShoppingList(savedRepairId, itemsWithQuantities),
\* which binds the items to issueTitle and leaves parts undefined.
AddPartsTimer ==
  /\ shopPc = "timer"
  /\ svc[1].pc = "idle"
  /\ IF shopClosure.savedRepairId = 0 \/ shopClosure.diagnosisResult = <<>>
     THEN /\ shopPc' = "idle"
          /\ shopClosure' = NoClosure
          /\ shopLog' = AddPartsDone(shopClosure, shopLog.n)
          /\ UNCHANGED svc
     ELSE /\ shopPc' = "service"
          /\ svc' = [svc EXCEPT ![1] = AddToIssueCall("Scanner", shopClosure.savedRepairId,
                                                      "[object Object]",
                                                      [defined |-> FALSE, items |-> <<>>])]
          /\ UNCHANGED <<shopClosure, shopLog, maintVars, fnVars>>
  /\ UNCHANGED <<gwVars, chatVars, diagnosisResult, savedRepairId, partsQuantities, partsAdded,
                 reportSave, authUser, rows, repairs, maintVars, fnVars>>

\* addToIssueShoppingList returns to the timer callback: setPartsAdded(allItems)
AddPartsReturn ==
  /\ shopPc = "service"
  /\ svc[1].pc = "return"
  /\ svc' = [svc EXCEPT ![1] = NoSvc]
  /\ partsAdded' = SetState(partsAdded, AllItems(shopClosure.diagnosisResult[1]))
  /\ shopPc' = "idle"
  /\ shopClosure' = NoClosure
  /\ shopLog' = AddPartsDone(shopClosure, shopLog.n)
  /\ UNCHANGED <<gwVars, chatVars, diagnosisResult, savedRepairId, partsQuantities, reportSave,
                 authUser, rows, repairs, maintVars, fnVars>>

(***************************************************************************)
(* SpecShop: one chat turn that may find a diagnosis, then the report card *)
(* with its quantities and its shopping-list button.                       *)
(***************************************************************************)
InitShop ==
  /\ GwInit
  /\ calls = [c \in CallIds |-> NoCall]
  /\ variant = "throttled"
  /\ ChatInit
  /\ CardInit
  /\ StoreInit
  /\ MaintInit
  /\ FnInit

NextShop ==
  \/ TypeText(TRUE)
  \/ HandleSend(1)
  \/ ChatRequest(1)
  \/ ChatRespond(1)
  \/ ChatChunk(1)
  \/ \E found \in BOOLEAN : ChatStreamEnd(1, found)
  \/ GenerateReport
  \/ \E insertOk \in BOOLEAN : ReportSaveDone(insertOk)
  \/ \E item \in Range(AllItems(ChatDiagnosis)) : Increment(item)
  \/ \E item \in Range(AllItems(ChatDiagnosis)) : Decrement(item)
  \/ \E item \in Range(AllItems(ChatDiagnosis)) : removePart(item)
  \/ AddPartsClick
  \/ \E insertOk \in BOOLEAN : AddPartsSaveDone(insertOk)
  \/ AddPartsTimer
  \/ AddPartsReturn
  \/ \E user \in Users : SignIn(user)
  \/ Unmount

SpecShop == InitShop /\ [][NextShop]_vars

(***************************************************************************)
(* SpecStore: callers of the shopping-list service that pass every         *)
(* argument, up to two calls at a time, against the table.                 *)
(***************************************************************************)
NextStore ==
  \/ \E k \in SvcIds, issueId \in IssueIds, parts \in PartsInputs : CallAddToIssue(k, issueId, parts)
  \/ \E k \in SvcIds, name \in ManualNames, quantity \in 1 .. MaxQuantity,
        issueId \in {0} \cup IssueIds : CallAddManual(k, name, quantity, issueId)
  \/ \E k \in SvcIds : SvcBatch(k)
  \/ \E k \in SvcIds : SvcSingle(k)
  \/ \E k \in SvcIds : SvcInsert(k)
  \/ \E k \in SvcIds : SvcReturn(k)
  \/ \E user \in Users : SignIn(user)

SpecStore == InitShop /\ [][NextStore]_vars

(***************************************************************************)
(* Properties of the shopping list.                                        *)
(***************************************************************************)
\* the table holds a row with the user, issue, name and quantity of `item`
HasRowOf(table, item) ==
  \E j \in 1 .. Len(table) :
    /\ Key(table[j]) = Key(item)
    /\ table[j].quantity = item.quantity

\* C9: when the diagnosis has been saved, the add-to-shopping-list action of the
\* card creates one row for each part and each tool of the diagnosis, with the
\* id the save returned as issue id and the quantity chosen for the item.
C9_AddCreatesRows ==
  (/\ shopLog.op = "addPartsToShoppingList"
   /\ shopLog.issueId # 0
   /\ shopLog.user # "none")
      => \A i \in 1 .. Len(shopLog.items) : HasRowOf(rows, shopLog.items[i])

\* no two rows of the table have the same (user_id, issue_id, name)
UniqueKeys(table) ==
  \A i, j \in 1 .. Len(table) : (i # j) => Key(table[i]) # Key(table[j])

\* the table holds a row with the key of `item`
HasKeyOf(table, item) == \E j \in 1 .. Len(table) : Key(table[j]) = Key(item)

\* sequence a is the beginning of sequence b
IsPrefix(a, b) == Len(a) <= Len(b) /\ SubSeq(b, 1, Len(a)) = a

NoUserId == ""
\* the id of a task of INITIAL_TASKS ('1' .. '12'), which is no uuid
INITIAL_TASK == 0
TaskIds == {INITIAL_TASK} \cup (1 .. MaxTasks)
Frequencies == {"Monthly", "Every 3 months"}

Access(table, kind, user_id) == [table |-> table, kind |-> kind, user_id |-> user_id]

\* the tasks the query .eq('user_id', user.id) gives
TasksOf(user, tasks) ==
  LET Own(task) == task.user_id = user
  IN SelectSeq(tasks, Own)

\* the requests of getMaintenanceTasks: one read of the tasks, then one read of
\* the history per task, filtered by task_id alone
getMaintenanceTasks(user, tasks) ==
  IF user = "none"
  THEN <<>>
  ELSE <<Access("maintenance_tasks", "select", user)>> \o
       [i \in 1 .. Len(TasksOf(user, tasks)) |->
          Access("maintenance_history", "select", NoUserId)]

HasTask(tasks, id) == \E i \in 1 .. Len(tasks) : tasks[i].id = id

\* crypto.randomUUID()
NewTaskId(tasks) == CHOOSE id \in 1 .. MaxTasks :
                      /\ ~HasTask(tasks, id)
                      /\ \A other \in 1 .. MaxTasks : ~HasTask(tasks, other) => id <= other

\* .update(change).eq('id', id).eq('user_id', user): the rows of `tasks` get the
\* fields of `change`
UpdateTask(tasks, user, id, change) ==
  [i \in 1 .. Len(tasks) |->
     IF tasks[i].id = id /\ tasks[i].user_id = user
     THEN [field \in DOMAIN tasks[i] |->
             IF field \in DOMAIN change THEN change[field] ELSE tasks[i][field]]
     ELSE tasks[i]]

\* .delete().eq('id', id).eq('user_id', user)
DeleteTask(tasks, user, id) ==
  LET Kept(task) == ~(task.id = id /\ task.user_id = user)
  IN SelectSeq(tasks, Kept)

\* task_id ... REFERENCES maintenance_tasks(id) ON DELETE CASCADE
Cascade(history, tasks) ==
  LET Kept(entry) == HasTask(tasks, entry.task_id)
  IN SelectSeq(history, Kept)

\* what the operation leaves for the properties: `refused` says that the store
\* answered one of its writes with an error; `thrown` says that the promise of
\* the operation was rejected, which no operation does: every one of them
\* catches, logs with console.error and returns await getMaintenanceTasks()
MaintLogged(op, id, accesses, refused) ==
  maintLog' = [op |-> op, n |-> maintLog.n + 1, user |-> authUser, id |-> id,
               accesses |-> accesses, before |-> maintenanceHistory,
               refused |-> refused, thrown |-> FALSE]

ListMaintenanceTasks ==
  /\ maintLog.n < MaxMaintOps
  /\ MaintLogged("getMaintenanceTasks", 0, getMaintenanceTasks(authUser, maintenanceTasks),
                 FALSE)
  /\ UNCHANGED <<maintenanceTasks, maintenanceHistory, gwVars, chatVars, cardVars, storeVars,
                 fnVars>>

addMaintenanceTask(frequency, ok) ==
  /\ maintLog.n < MaxMaintOps
  /\ Len(maintenanceTasks) < MaxTasks
  /\ IF authUser = "none"
     THEN /\ MaintLogged("addMaintenanceTask", 0, <<>>, FALSE)
          /\ UNCHANGED maintenanceTasks
     ELSE /\ maintenanceTasks' =
               IF ok
               THEN Append(maintenanceTasks,
                           [id |-> NewTaskId(maintenanceTasks), user_id |-> authUser,
                            frequency |-> frequency, completed |-> FALSE,
                            last_completed |-> 0])
               ELSE maintenanceTasks
          /\ MaintLogged("addMaintenanceTask", 0,
                         <<Access("maintenance_tasks", "insert", authUser)>> \o
                         getMaintenanceTasks(authUser, maintenanceTasks'),
                         ~ok)
  /\ UNCHANGED <<maintenanceHistory, gwVars, chatVars, cardVars, storeVars, fnVars>>

\* saveMaintenanceTaskToSupabase({ id, frequency }): the upsert carries no title,
\* so the store takes it only as an update of a row the user owns, and it
\* writes last_completed: null with it
updateMaintenanceTask(id, frequency, ok) ==
  /\ maintLog.n < MaxMaintOps
  /\ LET change == [frequency |-> frequency, last_completed |-> 0]
     IN IF authUser = "none"
        THEN /\ MaintLogged("updateMaintenanceTask", id, <<>>, FALSE)
             /\ UNCHANGED maintenanceTasks
        ELSE /\ maintenanceTasks' =
                  IF ok THEN UpdateTask(maintenanceTasks, authUser, id, change)
                        ELSE maintenanceTasks
             /\ MaintLogged("updateMaintenanceTask", id,
                            <<Access("maintenance_tasks", "upsert", authUser)>> \o
                            getMaintenanceTasks(authUser, maintenanceTasks'),
                            ~ok)
  /\ UNCHANGED <<maintenanceHistory, gwVars, chatVars, cardVars, storeVars, fnVars>>

\* the store takes the history row when the task id is a uuid of a stored task
HistoryInsert(tasks, id, ok) == ok /\ IsUuid(id) /\ HasTask(tasks, id)

completeMaintenanceTask(id, historyOk, taskOk) ==
  /\ maintLog.n < MaxMaintOps
  /\ LET change == [completed |-> TRUE, last_completed |-> now]
     IN IF authUser = "none"
        THEN /\ MaintLogged("completeMaintenanceTask", id, <<>>, FALSE)
             /\ UNCHANGED <<maintenanceTasks, maintenanceHistory>>
        ELSE /\ maintenanceHistory' =
                  IF HistoryInsert(maintenanceTasks, id, historyOk)
                  THEN Append(maintenanceHistory,
                              [id |-> maintLog.n + 1, task_id |-> id, user_id |-> authUser,
                               completed_at |-> now])
                  ELSE maintenanceHistory
             /\ maintenanceTasks' =
                  IF taskOk THEN UpdateTask(maintenanceTasks, authUser, id, change)
                            ELSE maintenanceTasks
             /\ MaintLogged("completeMaintenanceTask", id,
                            <<Access("maintenance_history", "insert", authUser),
                              Access("maintenance_tasks", "update", authUser)>> \o
                            getMaintenanceTasks(authUser, maintenanceTasks'),
                            ~HistoryInsert(maintenanceTasks, id, historyOk) \/ ~taskOk)
  /\ UNCHANGED <<gwVars, chatVars, cardVars, storeVars, fnVars>>

\* the update of the un-completion written with last_completed: null
uncompleteMaintenanceTask_ClearsDate(id, ok) ==
  /\ maintLog.n < MaxMaintOps
  /\ IF authUser = "none"
     THEN /\ MaintLogged("uncompleteMaintenanceTask", id, <<>>, FALSE)
          /\ UNCHANGED maintenanceTasks
     ELSE /\ maintenanceTasks' =
               IF ok THEN UpdateTask(maintenanceTasks, authUser, id, [completed |-> FALSE, last_completed |-> 0])
                     ELSE maintenanceTasks
          /\ MaintLogged("uncompleteMaintenanceTask", id,
                         <<Access("maintenance_tasks", "update", authUser)>> \o
                         getMaintenanceTasks(authUser, maintenanceTasks'),
                         ~ok)
  /\ UNCHANGED <<maintenanceHistory, gwVars, chatVars, cardVars, storeVars, fnVars>>

\* .update({ completed: false, updated_at }): last_completed is not written
uncompleteMaintenanceTask(id, ok) ==
  /\ maintLog.n < MaxMaintOps
  /\ IF authUser = "none"
     THEN /\ MaintLogged("uncompleteMaintenanceTask", id, <<>>, FALSE)
          /\ UNCHANGED maintenanceTasks
     ELSE /\ maintenanceTasks' =
               IF ok THEN UpdateTask(maintenanceTasks, authUser, id, [completed |-> FALSE])
                     ELSE maintenanceTasks
          /\ MaintLogged("uncompleteMaintenanceTask", id,
                         <<Access("maintenance_tasks", "update", authUser)>> \o
                         getMaintenanceTasks(authUser, maintenanceTasks'),
                         ~ok)
  /\ UNCHANGED <<maintenanceHistory, gwVars, chatVars, cardVars, storeVars, fnVars>>

deleteMaintenanceTask(id, ok) ==
  /\ maintLog.n < MaxMaintOps
  /\ IF authUser = "none"
     THEN /\ MaintLogged("deleteMaintenanceTask", id, <<>>, FALSE)
          /\ UNCHANGED <<maintenanceTasks, maintenanceHistory>>
     ELSE /\ maintenanceTasks' =
               IF ok THEN DeleteTask(maintenanceTasks, authUser, id) ELSE maintenanceTasks
          /\ maintenanceHistory' = Cascade(maintenanceHistory, maintenanceTasks')
          /\ MaintLogged("deleteMaintenanceTask", id,
                         <<Access("maintenance_tasks", "delete", authUser)>> \o
                         getMaintenanceTasks(authUser, maintenanceTasks'),
                         ~ok)
  /\ UNCHANGED <<gwVars, chatVars, cardVars, storeVars, fnVars>>

(***************************************************************************)
(* SpecMaint: users sign in and out and call the maintenance service with  *)
(* any task id; the store takes or refuses each write.                     *)
(***************************************************************************)
InitMaint ==
  /\ GwInit
  /\ calls = [c \in CallIds |-> NoCall]
  /\ variant = "throttled"
  /\ ChatInit
  /\ CardInit
  /\ StoreInit
  /\ MaintInit
  /\ FnInit

NextMaint ==
  \/ ListMaintenanceTasks
  \/ \E frequency \in Frequencies, ok \in BOOLEAN : addMaintenanceTask(frequency, ok)
  \/ \E id \in TaskIds, frequency \in Frequencies, ok \in BOOLEAN :
       updateMaintenanceTask(id, frequency, ok)
  \/ \E id \in TaskIds, historyOk \in BOOLEAN, taskOk \in BOOLEAN :
       completeMaintenanceTask(id, historyOk, taskOk)
  \/ \E id \in TaskIds, ok \in BOOLEAN : uncompleteMaintenanceTask(id, ok)
  \/ \E id \in TaskIds, ok \in BOOLEAN : deleteMaintenanceTask(id, ok)
  \/ \E user \in Users : SignIn(user)

SpecMaint == InitMaint /\ [][NextMaint]_vars

IsWrite(access) == access.kind \in {"insert", "upsert", "update", "delete"}

\* C11: every request the last maintenance operation sent to the store (read
\* or write) carries the user id that the authentication check of that
\* call returned, and a call made without an authenticated user sends no write.
C11_KeyedByAuthenticatedUser ==
  /\ \A i \in 1 .. Len(maintLog.accesses) : maintLog.accesses[i].user_id = maintLog.user
  /\ (maintLog.user = "none")
        => \A i \in 1 .. Len(maintLog.accesses) : ~IsWrite(maintLog.accesses[i])

\* the part of C11 about writes alone
WritesKeyedByAuthenticatedUser ==
  \A i \in 1 .. Len(maintLog.accesses) :
     IsWrite(maintLog.accesses[i])
        => /\ maintLog.user # "none"
           /\ maintLog.accesses[i].user_id = maintLog.user

NewEntries(before, after, id) ==
  {i \in 1 .. Len(after) :
     /\ after[i].task_id = id
     /\ \A j \in 1 .. Len(before) : before[j] # after[i]}

\* C12: a completion made by a signed-in user leaves exactly one new history
\* entry of the task, and every entry that existed before an operation is
\* still there, unchanged, after it, unless the operation deleted its task.
C12_OneEntryPerCompletion ==
  /\ (maintLog.op = "completeMaintenanceTask" /\ maintLog.user # "none")
        => Cardinality(NewEntries(maintLog.before, maintenanceHistory, maintLog.id)) = 1
  /\ \A j \in 1 .. Len(maintLog.before) :
        \/ \E i \in 1 .. Len(maintenanceHistory) : maintenanceHistory[i] = maintLog.before[j]
        \/ /\ maintLog.op = "deleteMaintenanceTask"
           /\ maintLog.before[j].task_id = maintLog.id

\* the part of C12 about entries that exist: no operation edits or removes one,
\* except the deletion of its task
HistoryIsAppendOnly ==
  \A j \in 1 .. Len(maintLog.before) :
     \/ \E i \in 1 .. Len(maintenanceHistory) : maintenanceHistory[i] = maintLog.before[j]
     \/ /\ maintLog.op = "deleteMaintenanceTask"
        /\ maintLog.before[j].task_id = maintLog.id

(***************************************************************************)
(* Scanner.extractDiagnosis.  A response is a sequence of tokens: section  *)
(* headers, the bullet marker "- ", the step marker "1. ", a word, a       *)
(* space, a newline, the word JSON, an opening brace and the quoted        *)
(* field name "FINAL_DIAGNOSIS".  Each regular expression of the function  *)
(* is computed on the tokens as the expression matches on the text; the    *)
(* summary (WHAT'S WRONG) is left out.                                     *)
(***************************************************************************)
Tokens == {"ISSUE", "PARTS", "TOOLS", "STEPS", "-", "1.", "w", "SP", "NL", "JSON", "{", "FD"}

\* the responses handed to the extractor
Responses == UNION {[1 .. n -> Tokens] : n \in 0 .. MaxResponse}

\* \s
IsSpace(token) == token \in {"SP", "NL"}

Least(set) == CHOOSE i \in set : \A j \in set : i <= j
Greatest(set) == CHOOSE i \in set : \A j \in set : j <= i

\* String.prototype.trim
TrimTokens(text) ==
  LET inked == {i \in 1 .. Len(text) : ~IsSpace(text[i])}
  IN IF inked = {} THEN <<>> ELSE SubSeq(text, Least(inked), Greatest(inked))

\* the index of the last token of the line that holds index i
LineEnd(text, i) ==
  LET breaks == {j \in i .. Len(text) : text[j] = "NL"}
  IN IF breaks = {} THEN Len(text) ELSE Least(breaks) - 1

\* group 1 of /\*{0,2}IDENTIFIED ISSUE:\*{0,2}\s*([^\n]+)/i tried at the header
\* at index i; <<>> when the expression does not match there.  \s* takes all the
\* white space and gives it back from the end until [^\n]+ finds a character.
TitleAt(text, i) ==
  LET inked == {j \in i + 1 .. Len(text) : ~IsSpace(text[j])}
      blanks == {j \in i + 1 .. Len(text) : text[j] = "SP"}
  IN IF inked # {}
     THEN SubSeq(text, Least(inked), LineEnd(text, Least(inked)))
     ELSE IF blanks # {}
          THEN SubSeq(text, Greatest(blanks), LineEnd(text, Greatest(blanks)))
          ELSE <<>>

\* titleMatch[1], <<>> when responseText.match gives null
titleMatch(text) ==
  LET hits == {i \in 1 .. Len(text) : text[i] = "ISSUE" /\ TitleAt(text, i) # <<>>}
  IN IF hits = {} THEN <<>> ELSE TitleAt(text, Least(hits))

\* match[0] of /header[\s\S]*?(?=stop|...|$)/i, <<>> when there is no match
Section(text, header, stops) ==
  LET starts == {i \in 1 .. Len(text) : text[i] = header}
  IN IF starts = {}
     THEN <<>>
     ELSE LET from == Least(starts)
              ends == {j \in from + 1 .. Len(text) : text[j] \in stops}
          IN SubSeq(text, from, IF ends = {} THEN Len(text) ELSE Least(ends) - 1)

\* String.prototype.split('\n')
SplitLines(text) ==
  LET lines[i \in 0 .. Len(text)] ==
        IF i = 0
        THEN << <<>> >>
        ELSE IF text[i] = "NL"
             THEN Append(lines[i - 1], <<>>)
             ELSE [lines[i - 1] EXCEPT ![Len(lines[i - 1])] = Append(@, text[i])]
  IN lines[Len(text)]

\* the number of characters of a token and of a text
TokenLength(token) ==
  CASE token \in {"SP", "NL", "{"} -> 1
    [] token = "-" -> 2
    [] token = "1." -> 3
    [] token \in {"w", "JSON"} -> 4
    [] OTHER -> 17
Length(text) ==
  LET sum[i \in 0 .. Len(text)] == IF i = 0 THEN 0 ELSE sum[i - 1] + TokenLength(text[i])
  IN sum[Len(text)]

\* the loop over the lines of a parts or tools section
Bullets(section) ==
  LET lines == SplitLines(section)
      items[i \in 0 .. Len(lines)] ==
        IF i = 0
        THEN <<>>
        ELSE LET trimmed == TrimTokens(lines[i])
                 item == IF trimmed = <<>> THEN <<>> ELSE TrimTokens(Tail(trimmed))
             IN IF /\ trimmed # <<>>
                   /\ trimmed[1] = "-"
                   /\ item # <<>>
                   /\ Length(item) > 1
                   /\ Length(item) < 100
                THEN Append(items[i - 1], item)
                ELSE items[i - 1]
  IN items[Len(lines)]

\* the loop over the lines of the steps section: /^\d+\.\s+(.+)/
Numbered(section) ==
  LET lines == SplitLines(section)
      items[i \in 0 .. Len(lines)] ==
        IF i = 0
        THEN <<>>
        ELSE LET trimmed == TrimTokens(lines[i])
             IN IF /\ Len(trimmed) > 1
                   /\ trimmed[1] = "1."
                THEN Append(items[i - 1], TrimTokens(Tail(trimmed)))
                ELSE items[i - 1]
  IN items[Len(lines)]

\* responseText.search(/\bJSON\b/i), 0 for -1
jsonKeywordIndex(text) ==
  LET hits == {i \in 1 .. Len(text) : text[i] = "JSON"}
  IN IF hits = {} THEN 0 ELSE Least(hits)

\* responseText.search(/\{[\s\S]*?"FINAL_DIAGNOSIS"/i), 0 for -1
jsonStartIndex(text) ==
  LET hits == {i \in 1 .. Len(text) :
                 text[i] = "{" /\ \E j \in i + 1 .. Len(text) : text[j] = "FD"}
  IN IF hits = {} THEN 0 ELSE Least(hits)

\* the text before cutoffIndex, trimmed
cleanedText(text) ==
  LET cutoffIndex == IF jsonKeywordIndex(text) # 0
                     THEN jsonKeywordIndex(text)
                     ELSE IF jsonStartIndex(text) # 0
                          THEN jsonStartIndex(text)
                          ELSE Len(text) + 1
  IN TrimTokens(SubSeq(text, 1, cutoffIndex - 1))

\* diagnosis.title ? diagnosis : null, null being <<>>
Diagnosis_NeverNull(diagnosis) == <<diagnosis>>
Diagnosis(diagnosis) == IF diagnosis.title # <<>> THEN <<diagnosis>> ELSE <<>>

extractDiagnosis(responseText) ==
  [cleanedText |-> cleanedText(responseText),
   diagnosis |-> Diagnosis(
     [title |-> TrimTokens(titleMatch(responseText)),
      parts_needed |-> Bullets(Section(responseText, "PARTS", {"TOOLS", "STEPS"})),
      tools_needed |-> Bullets(Section(responseText, "TOOLS", {"STEPS"})),
      steps |-> Numbered(Section(responseText, "STEPS", {}))])]

(***************************************************************************)
(* SpecExtract: the extractor is handed any response of up to MaxResponse  *)
(* tokens.                                                                 *)
(***************************************************************************)
IdleInit ==
  /\ GwInit
  /\ calls = [c \in CallIds |-> NoCall]
  /\ variant = "throttled"
  /\ ChatInit
  /\ CardInit
  /\ StoreInit
  /\ MaintInit

InitExtract ==
  /\ IdleInit
  /\ args \in Responses
  /\ returned = <<>>

Extract ==
  /\ returned = <<>>
  /\ returned' = <<extractDiagnosis(args)>>
  /\ UNCHANGED <<args, gwVars, chatVars, cardVars, storeVars, maintVars>>

NextExtract == Extract

SpecExtract == InitExtract /\ [][NextExtract]_vars

\* the response holds the header IDENTIFIED ISSUE: followed, after any white
\* space, by text
HasTitledHeader(text) ==
  \E i \in 1 .. Len(text) :
     text[i] = "ISSUE" /\ \E j \in i + 1 .. Len(text) : ~IsSpace(text[j])
HasHeader(text, header) == \E i \in 1 .. Len(text) : text[i] = header

\* C13: for a response with the header IDENTIFIED ISSUE: followed by a title the
\* extractor returns a diagnosis, whose title is not empty; for a response
\* without that header it returns no diagnosis, whatever sections the response
\* holds; and a returned diagnosis has an empty list for every section that the
\* response does not hold.
C13_DiagnosisIffTitledHeader ==
  returned # <<>> =>
     /\ HasTitledHeader(args)
          => /\ returned[1].diagnosis # <<>>
             /\ returned[1].diagnosis[1].title # <<>>
     /\ ~HasHeader(args, "ISSUE") => returned[1].diagnosis = <<>>
     /\ returned[1].diagnosis # <<>> =>
          /\ ~HasHeader(args, "PARTS") => returned[1].diagnosis[1].parts_needed = <<>>
          /\ ~HasHeader(args, "TOOLS") => returned[1].diagnosis[1].tools_needed = <<>>
          /\ ~HasHeader(args, "STEPS") => returned[1].diagnosis[1].steps = <<>>

\* a response with a parts section and no IDENTIFIED ISSUE: header has been
\* through the extractor
C13_Witness ==
  /\ returned # <<>>
  /\ ~HasHeader(args, "ISSUE")
  /\ Bullets(Section(args, "PARTS", {"TOOLS", "STEPS"})) # <<>>

\* the raw-data marker: the word JSON, or an opening brace with the field
\* FINAL_DIAGNOSIS somewhere after it
HasMarker(text) ==
  \/ \E i \in 1 .. Len(text) : text[i] = "JSON"
  \/ \E i \in 1 .. Len(text) : text[i] = "{" /\ \E j \in i + 1 .. Len(text) : text[j] = "FD"

\* C14: when the response holds the raw-data marker, cleanedText holds none;
\* when the response holds no marker, cleanedText is the response, trimmed.
C14_CleanedTextHasNoMarker ==
  returned # <<>> =>
     /\ HasMarker(args) => ~HasMarker(returned[1].cleanedText)
     /\ ~HasMarker(args) => returned[1].cleanedText = TrimTokens(args)

\* the part of C14 that holds: nothing of the response from the first word
\* JSON on is in cleanedText, and a response without marker comes back trimmed
CleanedTextHasNoKeyword ==
  returned # <<>> =>
     /\ \A i \in 1 .. Len(returned[1].cleanedText) : returned[1].cleanedText[i] # "JSON"
     /\ ~HasMarker(args) => returned[1].cleanedText = TrimTokens(args)

(***************************************************************************)
(* calculateTaskStatus.  Timestamps are counted in ticks of six hours, so  *)
(* that 1000 * 60 * 60 * 24 milliseconds are TicksPerDay ticks; a due date *)
(* of 0 stands for the values that !nextDue takes for absent (null and 0). *)
(***************************************************************************)
TicksPerDay == 4

DueWithin(daysUntilDue) == daysUntilDue <= 7

calculateTaskStatus(nextDue, completed, at) ==
  IF completed
  THEN "completed"
  ELSE IF nextDue = 0
       THEN "due"
       ELSE LET daysUntilDue == (nextDue - at) \div TicksPerDay
            IN IF daysUntilDue < 0
               THEN "overdue"
               ELSE IF DueWithin(daysUntilDue) THEN "due" ELSE "upcoming"

(***************************************************************************)
(* SpecStatus: calculateTaskStatus is called at any time with any due date *)
(* up to MaxDue.                                                           *)
(***************************************************************************)
InitStatus ==
  /\ GwInit
  /\ calls = [c \in CallIds |-> NoCall]
  /\ variant = "throttled"
  /\ mounted = TRUE
  /\ failures = 0
  /\ now \in 1 .. 2 * TicksPerDay
  /\ lastRequestTime = 0
  /\ loading = FALSE
  /\ isThinking = FALSE
  /\ chatDisabled = FALSE
  /\ inputText = FALSE
  /\ selectedImage = FALSE
  /\ messages = <<>>
  /\ sends = [s \in SendIds |-> NoSend]
  /\ CardInit
  /\ StoreInit
  /\ MaintInit
  /\ args \in [nextDue : 0 .. MaxDue, completed : BOOLEAN]
  /\ returned = <<>>

Status ==
  /\ returned = <<>>
  /\ returned' = <<calculateTaskStatus(args.nextDue, args.completed, now)>>
  /\ UNCHANGED <<args, gwVars, chatVars, cardVars, storeVars, maintVars>>

NextStatus == Status

SpecStatus == InitStatus /\ [][NextStatus]_vars

\* C15: for a task that is not completed and has a due date, the status is
\* overdue when the due date is before now, due when it is from now up to 7
\* days ahead, upcoming when it is more than 7 days ahead; for a completed task
\* the status is completed.
C15_StatusByDueDate ==
  returned # <<>> =>
     /\ args.completed => returned[1] = "completed"
     /\ (~args.completed /\ args.nextDue # 0) =>
          /\ args.nextDue < now => returned[1] = "overdue"
          /\ (now <= args.nextDue /\ args.nextDue <= now + 7 * TicksPerDay)
                => returned[1] = "due"
          /\ args.nextDue > now + 7 * TicksPerDay => returned[1] = "upcoming"

\* what calculateTaskStatus does: the boundary between due and upcoming lies at
\* 8 days ahead, the whole days until the due date being compared with 7
StatusByWholeDays ==
  returned # <<>> =>
     /\ args.completed => returned[1] = "completed"
     /\ (~args.completed /\ args.nextDue # 0) =>
          /\ args.nextDue < now => returned[1] = "overdue"
          /\ (now <= args.nextDue /\ args.nextDue < now + 8 * TicksPerDay)
                => returned[1] = "due"
          /\ args.nextDue >= now + 8 * TicksPerDay => returned[1] = "upcoming"

(***************************************************************************)
(* calculateNextDue.  A timestamp is written as the fields that            *)
(* new Date(timestamp) shows in local time: year, month (0 .. 11), date    *)
(* (day of the month) and time of day; setMonth, setFullYear and the       *)
(* addition of days bring the fields back into range as Date does.         *)
(***************************************************************************)
IsLeapYear(year) == (year % 4 = 0 /\ year % 100 # 0) \/ year % 400 = 0

DaysInMonth(year, month) ==
  CASE month = 1 -> IF IsLeapYear(year) THEN 29 ELSE 28
    [] month \in {3, 5, 8, 10} -> 30
    [] OTHER -> 31

\* the date a Date object holds after its fields were set to these values
RECURSIVE MakeDate(_, _, _, _)
MakeDate(year, month, date, time) ==
  IF month > 11
  THEN MakeDate(year + 1, month - 12, date, time)
  ELSE IF date > DaysInMonth(year, month)
       THEN MakeDate(year, month + 1, date - DaysInMonth(year, month), time)
       ELSE [year |-> year, month |-> month, date |-> date, time |-> time]

\* nextMonth.setMonth(nextMonth.getMonth() + multiplier)
setMonth(d, multiplier) == MakeDate(d.year, d.month + multiplier, d.date, d.time)

\* nextYear.setFullYear(nextYear.getFullYear() + multiplier)
setFullYear(d, multiplier) == MakeDate(d.year + multiplier, d.month, d.date, d.time)

\* lastDate.getTime() + days * 24 * 60 * 60 * 1000
AddDays(d, days) == MakeDate(d.year, d.month, d.date + days, d.time)

\* the frequency texts handed to calculateNextDue
DueFrequencies == {"Every 3 months", "Every 6 months", "Every 2 weeks", "Every 10 days",
                   "Every 0 days", "Every 2 years", "Every 1-3 months", "Spring & Fall",
                   "Monthly", "Annually", "Semi-annually", "Quarterly", "Weekly", "As needed"}

\* the words the function looks for that the lower-cased text contains
Words(frequency) ==
  CASE frequency \in {"Every 3 months", "Every 6 months", "Every 2 weeks", "Every 10 days",
                      "Every 0 days", "Every 2 years", "Every 1-3 months"} -> {"every"}
    [] frequency = "Spring & Fall" -> {"spring", "fall"}
    [] frequency = "Monthly" -> {"monthly"}
    [] frequency \in {"Annually", "Semi-annually"} -> {"annual"}
    [] frequency = "Weekly" -> {"weekly"}
    [] OTHER -> {}

\* frequencyLower.includes(word)
includes(frequency, word) == word \in Words(frequency)

\* frequencyLower.match(/every\s+(\d+)\s*(month|week|day|year)/): <<num, unit>>,
\* <<>> for null
everyMatch(frequency) ==
  CASE frequency = "Every 3 months" -> <<3, "month">>
    [] frequency = "Every 6 months" -> <<6, "month">>
    [] frequency = "Every 2 weeks" -> <<2, "week">>
    [] frequency = "Every 10 days" -> <<10, "day">>
    [] frequency = "Every 0 days" -> <<0, "day">>
    [] frequency = "Every 2 years" -> <<2, "year">>
    [] OTHER -> <<>>

\* lastCompleted and the result are <<date>>; lastCompleted is <<>> for null
calculateNextDue(lastCompleted, frequency, today) ==
  IF lastCompleted = <<>>
  THEN today
  ELSE LET lastDate == lastCompleted[1]
           match == everyMatch(frequency)
       IN IF includes(frequency, "every") /\ match # <<>>
          THEN CASE match[2] = "day" -> AddDays(lastDate, match[1])
                 [] match[2] = "week" -> AddDays(lastDate, match[1] * 7)
                 [] match[2] = "month" -> setMonth(lastDate, match[1])
                 [] match[2] = "year" -> setFullYear(lastDate, match[1])
          ELSE IF includes(frequency, "spring") /\ includes(frequency, "fall")
               THEN IF today.month < 3
                    THEN MakeDate(today.year, 2, 20, 0)
                    ELSE IF today.month < 9
                         THEN MakeDate(today.year, 8, 22, 0)
                         ELSE MakeDate(today.year + 1, 2, 20, 0)
               ELSE IF includes(frequency, "monthly")
                    THEN setMonth(lastDate, 1)
                    ELSE IF includes(frequency, "annual") \/ includes(frequency, "yearly")
                         THEN setFullYear(lastDate, 1)
                         ELSE IF includes(frequency, "weekly")
                              THEN AddDays(lastDate, 7)
                              ELSE setMonth(lastDate, 6)

(***************************************************************************)
(* SpecNextDue: calculateNextDue is called with any date of the years      *)
(* FirstYear .. FirstYear + MaxYears - 1, or with null.                    *)
(***************************************************************************)
Dates ==
  {d \in [year : FirstYear .. FirstYear + MaxYears - 1, month : 0 .. 11, date : 1 .. 31,
          time : {0, 1}] : d.date <= DaysInMonth(d.year, d.month)}

Todays == {MakeDate(FirstYear, 1, 10, 1), MakeDate(FirstYear, 8, 25, 0),
           MakeDate(FirstYear, 9, 5, 0)}

InitNextDue ==
  /\ IdleInit
  /\ args \in [lastCompleted : {<<>>} \cup {<<d>> : d \in Dates}, frequency : DueFrequencies,
               today : Todays]
  /\ returned = <<>>

NextDue ==
  /\ returned = <<>>
  /\ returned' = <<calculateNextDue(args.lastCompleted, args.frequency, args.today)>>
  /\ UNCHANGED <<args, gwVars, chatVars, cardVars, storeVars, maintVars>>

NextNextDue == NextDue

SpecNextDue == InitNextDue /\ [][NextNextDue]_vars

\* C16: for a task completed at T with the frequency "Every 3 months" the next
\* due date has the day of the month and the time of day of T, and its month is
\* the month of T plus 3, counted over the end of the year.
C16_ThreeCalendarMonths ==
  (returned # <<>> /\ args.frequency = "Every 3 months" /\ args.lastCompleted # <<>>) =>
     LET T == args.lastCompleted[1]
     IN /\ returned[1].date = T.date
        /\ returned[1].time = T.time
        /\ returned[1].month = (T.month + 3) % 12
        /\ returned[1].year = T.year + (T.month + 3) \div 12

\* what calculateNextDue does for "Every 3 months": the claim's date whenever
\* the month three months on has that day; otherwise the days beyond the end of
\* that month are counted into the month after it
ThreeMonthsWithOverflow ==
  (returned # <<>> /\ args.frequency = "Every 3 months" /\ args.lastCompleted # <<>>) =>
     LET T == args.lastCompleted[1]
         month == (T.month + 3) % 12
         year == T.year + (T.month + 3) \div 12
     IN /\ returned[1].time = T.time
        /\ T.date <= DaysInMonth(year, month)
             => returned[1] = [year |-> year, month |-> month, date |-> T.date,
                               time |-> T.time]
        /\ T.date > DaysInMonth(year, month)
             => returned[1] = [year |-> year, month |-> month + 1,
                               date |-> T.date - DaysInMonth(year, month), time |-> T.time]

(***************************************************************************)
(* The chunks of a streaming turn (SpecGateway).                           *)
(***************************************************************************)
\* C17: when a streaming call has returned, the chunks it yielded to its caller
\* are chunk 1 to chunk NChunks of one request, each once and in order; a stream
\* that broke after some chunks does not make the call yield the beginning of a
\* response again.
C17_ChunksOfOneResponse ==
  (calls[0].path = "stream" /\ calls[0].pc = "returned")
     => calls[0].yielded = [i \in 1 .. NChunks |-> <<Len(calls[0].reqs), i>>]

\* what sendMessageStream does: the call yields, for every request whose stream
\* was opened, the chunks of that request from the first one on, and the last
\* request's chunks in full
ChunksOfEveryRequest ==
  (calls[0].path = "stream" /\ calls[0].pc = "returned")
     => /\ Len(calls[0].yielded) >= NChunks
        /\ SubSeq(calls[0].yielded, Len(calls[0].yielded) - NChunks + 1, Len(calls[0].yielded))
             = [i \in 1 .. NChunks |-> <<Len(calls[0].reqs), i>>]

\* the error of the request that failed last, NoError when the last request
\* was answered or none was made
LastError(st) ==
  IF st.outs # <<>> /\ st.outs[Len(st.outs)].status # OkOut.status
  THEN [status |-> st.outs[Len(st.outs)].status, message |-> st.outs[Len(st.outs)].message]
  ELSE NoError

\* whether a call on this path retries its first request when it fails with
\* `error`
RetriesFirstRequest(path, error) ==
  LET st == Issued(NewCall(path, "Scanner", [turn |-> 1, image |-> FALSE]), <<>>)
  IN Failed(st, error).pc = "wait"

\* C18: an error that a request has failed with is classified alike by the two
\* paths: the single-shot path retries a first request that fails with it
\* exactly if the streaming path does; and an error of HTTP status 503 is
\* retried by both.
C18_SameClassification ==
  LastError(calls[0]) # NoError =>
     /\ RetriesFirstRequest("single", LastError(calls[0]))
          = RetriesFirstRequest("stream", LastError(calls[0]))
     /\ LastError(calls[0]).status = 503
          => /\ RetriesFirstRequest("single", LastError(calls[0]))
             /\ RetriesFirstRequest("stream", LastError(calls[0]))

(***************************************************************************)
(* The end of a turn of the Scanner revision of part_002.                  *)
(***************************************************************************)
InitThrottled ==
  /\ InitChat
  /\ variant = "throttled"

SpecThrottled == InitThrottled /\ [][NextChat]_vars

\* the text of the assistant message of turn s, "none" when the transcript has
\* no such message
AssistantText(msgs, s) ==
  LET own == {i \in 1 .. Len(msgs) : msgs[i].role = "assistant" /\ msgs[i].turn = s}
  IN IF own = {} THEN "none" ELSE msgs[Least(own)].text

\* handleSend of turn s returns in this step
TurnEnds(s) == sends[s].pc = "gateway" /\ sends'[s].pc = "done"
\* every chunk of the stream of turn s has been yielded
StreamDone(s) == calls[s].pc = "stream" /\ calls[s].chunkNo = NChunks
\* the output of extractDiagnosis for turn s is written in this step
ExtractorRuns(s) ==
  \/ AssistantText(messages, s) # "final" /\ AssistantText(messages', s) = "final"
  \/ sends[s].pc = "gateway" /\ diagnosisResult' # diagnosisResult

\* C19: the extractor's output of a turn is written only in the step that ends
\* the turn after the last chunk of its stream, and in that step it is written
\* (while the Scanner is mounted); a turn that ends on a failed stream leaves the
\* stored diagnosis and the quantities as they were and, while the Scanner is
\* mounted, puts an error text into the turn's assistant message.
C19_ExtractAfterLastChunk ==
  [][\A s \in SendIds :
       /\ ExtractorRuns(s) => (TurnEnds(s) /\ StreamDone(s))
       /\ (TurnEnds(s) /\ StreamDone(s) /\ mounted)
            => AssistantText(messages', s) = "final"
       /\ (TurnEnds(s) /\ ~StreamDone(s))
            => /\ diagnosisResult' = diagnosisResult
               /\ partsQuantities' = partsQuantities
               /\ mounted => AssistantText(messages', s) \in {"capacity", "error"}]_vars

\* a diagnosis is stored from an earlier turn and a later turn has ended on a
\* failed request or stream
C19_Witness ==
  /\ diagnosisResult # <<>>
  /\ \E s \in SendIds :
        /\ sends[s].pc = "done"
        /\ AssistantText(messages, s) \in {"capacity", "error"}

(***************************************************************************)
(* The confirmation of the report card (SpecShop).                         *)
(***************************************************************************)
\* C20: the card's confirmation names an item only if the shopping list holds
\* a row of that item: partsAdded is set only when the rows were inserted.
C20_AddedOnlyIfInserted ==
  \A i \in 1 .. Len(partsAdded) :
     \E j \in 1 .. Len(rows) : rows[j].name = partsAdded[i]

(***************************************************************************)
(* What the caller of a maintenance operation gets when the store refuses  *)
(* a write.                                                                *)
(***************************************************************************)
\* C21: an operation of which the store refused a write ends with an error for
\* its caller (the handlers of MaintenanceChecklist have nothing else to show),
\* never with the normal return of the task list.
C21_RefusedWriteIsSurfaced == maintLog.refused => maintLog.thrown

(***************************************************************************)
(* Frame conditions of the maintenance operations, as properties of the    *)
(* step an operation takes.                                                *)
(***************************************************************************)
\* the step is a call of the operation `op`
Called(op) == maintLog'.n # maintLog.n /\ maintLog'.op = op

\* the rows of `after` are those of `before`, apart from the fields `fields` of
\* the row `id` of `user`
SameExcept(before, after, user, id, fields) ==
  /\ Len(after) = Len(before)
  /\ \A i \in 1 .. Len(before) :
        \A field \in DOMAIN before[i] :
           \/ after[i][field] = before[i][field]
           \/ /\ before[i].id = id
              /\ before[i].user_id = user
              /\ field \in fields

UpdateChangesFrequencyAndDate ==
  [][Called("updateMaintenanceTask")
        => /\ maintenanceHistory' = maintenanceHistory
           /\ SameExcept(maintenanceTasks, maintenanceTasks', authUser, maintLog'.id,
                         {"frequency", "last_completed"})]_vars

\* the list getMaintenanceTasks returns to `user`, as the id and the completed
\* flag of each task: the user's stored tasks, or INITIAL_TASKS when nobody is
\* signed in or the user has no stored task
TaskList(user, tasks) ==
  IF user = "none" \/ TasksOf(user, tasks) = <<>>
  THEN <<[id |-> INITIAL_TASK, completed |-> FALSE]>>
  ELSE [i \in 1 .. Len(TasksOf(user, tasks)) |->
          [id |-> TasksOf(user, tasks)[i].id, completed |-> TasksOf(user, tasks)[i].completed]]

\* the ids of the tasks of a list
Listed(list) == {list[i].id : i \in 1 .. Len(list)}

\* C23: the list returned by addMaintenanceTask holds every task of the list
\* before the call; completing or deleting a task leaves the other listed tasks
\* the same; and a listed task that is completed is reported as completed by the
\* next list, unless the store refused a write on a task it holds.
C23_ListedTasksStay ==
  [][LET before == TaskList(authUser, maintenanceTasks)
         after == TaskList(authUser, maintenanceTasks')
         id == maintLog'.id
     IN /\ Called("addMaintenanceTask") => Listed(before) \subseteq Listed(after)
        /\ (Called("completeMaintenanceTask") \/ Called("deleteMaintenanceTask"))
              => Listed(before) \ {id} = Listed(after) \ {id}
        /\ (/\ Called("completeMaintenanceTask")
            /\ id \in Listed(before)
            /\ ~(maintLog'.refused /\ HasTask(maintenanceTasks, id)))
              => \E i \in 1 .. Len(after) : after[i].id = id /\ after[i].completed]_vars

\* what does hold: the same three statements about the tasks the user has in
\* the store, whatever the list falls back to
StoredTasksStay ==
  [][LET before == TasksOf(authUser, maintenanceTasks)
         after == TasksOf(authUser, maintenanceTasks')
         id == maintLog'.id
     IN /\ Called("addMaintenanceTask") => Listed(before) \subseteq Listed(after)
        /\ (Called("completeMaintenanceTask") \/ Called("deleteMaintenanceTask"))
              => Listed(before) \ {id} = Listed(after) \ {id}
        /\ (/\ Called("completeMaintenanceTask")
            /\ id \in Listed(before)
            /\ ~maintLog'.refused)
              => \E i \in 1 .. Len(after) : after[i].id = id /\ after[i].completed]_vars

(***************************************************************************)
(* toggleShoppingListItem.  The id of an item is the index of its row; the *)
(* call reads the list, then writes the negation of the flag it read.  The *)
(* check box of ShoppingList is never disabled, so a second call can start *)
(* while the first one is between its read and its write.                  *)
(***************************************************************************)
ToggleCall(id) ==
  [NoSvc EXCEPT !.op = "toggleShoppingListItem", !.from = "ShoppingList", !.user = authUser,
                !.idx = id, !.before = rows,
                !.pc = IF authUser = "none" THEN "notfound" ELSE "read"]

\* ShoppingList.handleToggle: the user clicks the check box of item `id`
CallToggle(k, id) ==
  /\ svc[k].pc = "idle"
  /\ shopPc = "idle"
  /\ id \in 1 .. Len(rows)
  /\ svc' = [svc EXCEPT ![k] = ToggleCall(id)]
  /\ UNCHANGED <<authUser, rows, repairs, shopLog, gwVars, chatVars, cardVars, maintVars, fnVars>>

\* the answer of getShoppingLists arrives: allItems.find(i => i.id === id)
ToggleRead(k) ==
  /\ svc[k].pc = "read"
  /\ svc' = IF rows[svc[k].idx].user_id = svc[k].user
            THEN [svc EXCEPT ![k].pc = "update", ![k].items = << rows[svc[k].idx] >>]
            ELSE [svc EXCEPT ![k].pc = "notfound"]
  /\ UNCHANGED <<authUser, rows, repairs, shopLog, gwVars, chatVars, cardVars, maintVars, fnVars>>

\* .update({ completed: !item.completed }).eq('id', id).eq('user_id', user.id)
ToggleUpdate(table, call) ==
  [table EXCEPT ![call.idx].completed = ~call.items[1].completed]

\* the store answers the update; an error is logged and the call goes on
ToggleWrite(k, ok) ==
  /\ svc[k].pc = "update"
  /\ rows' = IF ok THEN ToggleUpdate(rows, svc[k]) ELSE rows
  /\ svc' = [svc EXCEPT ![k].pc = IF ok THEN "toggled" ELSE "refused"]
  /\ UNCHANGED <<authUser, repairs, shopLog, gwVars, chatVars, cardVars, maintVars, fnVars>>

\* the call returns the list it reads last
ToggleReturn(k) ==
  /\ svc[k].pc \in {"toggled", "refused", "notfound"}
  /\ svc' = [svc EXCEPT ![k] = NoSvc]
  /\ UNCHANGED <<authUser, rows, repairs, shopLog, gwVars, chatVars, cardVars, maintVars, fnVars>>

NextToggle ==
  \/ \E k \in SvcIds : CallAddManual(k, "washer", 1, 1)
  \/ \E k \in SvcIds : SvcInsert(k)
  \/ \E k \in SvcIds : SvcReturn(k)
  \/ \E k \in SvcIds, id \in 1 .. MaxShopCalls : CallToggle(k, id)
  \/ \E k \in SvcIds : ToggleRead(k)
  \/ \E k \in SvcIds, ok \in BOOLEAN : ToggleWrite(k, ok)
  \/ \E k \in SvcIds : ToggleReturn(k)
  \/ \E user \in Users : SignIn(user)

SpecToggle == InitShop /\ [][NextToggle]_vars

\* two calls that toggled the same item are about to return, and the second
\* started before the first one wrote
ToggledTwiceAtOnce(k, l) ==
  /\ k # l
  /\ svc[k].pc = "toggled" /\ svc[l].pc = "toggled"
  /\ svc[k].idx = svc[l].idx
  /\ svc[k].before = svc[l].before

\* C24: when two calls have toggled the same item and the second one started
\* before the first one had written, the item has the completed flag it had
\* before the two calls.
C24_TwoTogglesRestore ==
  \A k, l \in SvcIds :
     ToggledTwiceAtOnce(k, l)
        => rows[svc[k].idx].completed = svc[k].before[svc[k].idx].completed

\* what does hold: a call writes the negation of the flag it read, whatever the
\* row holds by then
ToggleWritesWhatItRead ==
  [][\A k \in SvcIds :
       (svc[k].pc = "update" /\ svc'[k].pc = "toggled")
          => rows'[svc[k].idx].completed = ~svc[k].items[1].completed]_vars

(***************************************************************************)
(* SpecDerive: getMaintenanceTasks derives nextDue and status of a task    *)
(* of frequency 'Weekly' by two calls in a row, each of which reads the    *)
(* clock itself; the clock can advance between the two.  Timestamps are    *)
(* ticks as in SpecStatus, 0 is null.                                      *)
(***************************************************************************)
\* calculateNextDue(lastCompleted, 'Weekly') with Date.now() = at
calculateNextDueWeekly(lastCompleted, at) ==
  IF lastCompleted = 0 THEN at ELSE lastCompleted + 7 * TicksPerDay

InitDerive ==
  /\ GwInit
  /\ calls = [c \in CallIds |-> NoCall]
  /\ variant = "throttled"
  /\ mounted = TRUE
  /\ failures = 0
  /\ now \in 1 .. TicksPerDay
  /\ lastRequestTime = 0
  /\ loading = FALSE
  /\ isThinking = FALSE
  /\ chatDisabled = FALSE
  /\ inputText = FALSE
  /\ selectedImage = FALSE
  /\ messages = <<>>
  /\ sends = [s \in SendIds |-> NoSend]
  /\ CardInit
  /\ StoreInit
  /\ MaintInit
  /\ args \in [lastCompleted : 0 .. TicksPerDay, completed : BOOLEAN, calledAt : 1 .. TicksPerDay]
  /\ args.calledAt = now
  /\ args.lastCompleted <= now
  /\ returned = <<>>

\* const nextDue = calculateNextDue(lastCompleted, task.frequency)
DeriveNextDue ==
  /\ returned = <<>>
  /\ returned' = <<calculateNextDueWeekly(args.lastCompleted, now)>>
  /\ UNCHANGED <<args, gwVars, chatVars, cardVars, storeVars, maintVars>>

\* the clock advances between the two calls
Elapse ==
  /\ Len(returned) = 1
  /\ now < MaxTime
  /\ now' = now + 1
  /\ UNCHANGED <<failures, variant, mounted, lastRequestTime, loading, isThinking, chatDisabled,
                 inputText, selectedImage, messages, sends, gwVars, cardVars, storeVars,
                 maintVars, fnVars>>

\* const status = calculateTaskStatus(nextDue, task.completed)
DeriveStatus ==
  /\ Len(returned) = 1
  /\ returned' = Append(returned, calculateTaskStatus(returned[1], args.completed, now))
  /\ UNCHANGED <<args, gwVars, chatVars, cardVars, storeVars, maintVars>>

NextDerive ==
  \/ DeriveNextDue
  \/ Elapse
  \/ DeriveStatus

SpecDerive == InitDerive /\ [][NextDerive]_vars

\* nextDue and status as one reading `at` of the clock gives them
Derived(task, at) ==
  <<calculateNextDueWeekly(task.lastCompleted, at),
    calculateTaskStatus(calculateNextDueWeekly(task.lastCompleted, at), task.completed, at)>>

\* C25: the nextDue and the status derived for a task are those that its
\* lastCompleted, frequency and completed flag give with one reading of the
\* clock, taken between the start and the end of the derivation; a task that
\* was never completed and is not completed is always 'due'.
C25_OneReadingOfTheClock ==
  Len(returned) = 2 =>
     /\ \E at \in args.calledAt .. now : returned = Derived(args, at)
     /\ (args.lastCompleted = 0 /\ ~args.completed) => returned[2] = "due"

\* what does hold: the results are those of one reading once the task has a
\* completion date or is completed
OneReadingOnceCompleted ==
  (Len(returned) = 2 /\ (args.lastCompleted # 0 \/ args.completed))
     => \E at \in args.calledAt .. now : returned = Derived(args, at)

(***************************************************************************)
(* The interval calculateNextDue adds for a frequency text (SpecNextDue).  *)
(***************************************************************************)
\* the interval a frequency text stands for: the 'every N unit' pattern, else
\* the keyword, else none (<<>>)
KeywordInterval(frequency) ==
  CASE everyMatch(frequency) # <<>> -> everyMatch(frequency)
    [] frequency = "Monthly" -> <<1, "month">>
    [] frequency = "Annually" -> <<12, "month">>
    [] frequency = "Weekly" -> <<7, "day">>
    [] frequency = "Semi-annually" -> <<6, "month">>
    [] frequency = "Quarterly" -> <<3, "month">>
    [] OTHER -> <<>>

\* the date an interval after `d`
After(d, interval) ==
  CASE interval[2] = "day" -> AddDays(d, interval[1])
    [] interval[2] = "week" -> AddDays(d, interval[1] * 7)
    [] interval[2] = "month" -> setMonth(d, interval[1])
    [] interval[2] = "year" -> setFullYear(d, interval[1])

\* C26: for a task with a completion date the result is the completion date
\* plus the interval of the 'every N unit' pattern or else of the keyword
\* (monthly 1 month, annual 12 months, weekly 7 days, semi-annual 6 months,
\* quarterly 3 months); a text without pattern and keyword gets the seasonal
\* date when it names spring and fall and 6 months otherwise.
C26_PatternKeywordSeasonDefault ==
  (returned # <<>> /\ args.lastCompleted # <<>>) =>
     LET lastDate == args.lastCompleted[1]
         interval == KeywordInterval(args.frequency)
     IN IF interval # <<>>
        THEN returned[1] = After(lastDate, interval)
        ELSE IF args.frequency = "Spring & Fall"
             THEN returned[1] \in {MakeDate(args.today.year, 2, 20, 0),
                                   MakeDate(args.today.year, 8, 22, 0),
                                   MakeDate(args.today.year + 1, 2, 20, 0)}
             ELSE returned[1] = setMonth(lastDate, 6)

\* what does hold: the same for every text but the keywords the function does
\* not know, semi-annual and quarterly
KnownKeywordsAndDefault ==
  (returned # <<>> /\ args.lastCompleted # <<>>
     /\ args.frequency \notin {"Semi-annually", "Quarterly"}) =>
     LET lastDate == args.lastCompleted[1]
         interval == KeywordInterval(args.frequency)
     IN IF interval # <<>>
        THEN returned[1] = After(lastDate, interval)
        ELSE IF args.frequency = "Spring & Fall"
             THEN returned[1] \in {MakeDate(args.today.year, 2, 20, 0),
                                   MakeDate(args.today.year, 8, 22, 0),
                                   MakeDate(args.today.year + 1, 2, 20, 0)}
             ELSE returned[1] = setMonth(lastDate, 6)

\* date a is before date b
Before(a, b) ==
  \/ a.year < b.year
  \/ a.year = b.year /\ a.month < b.month
  \/ a.year = b.year /\ a.month = b.month /\ a.date < b.date
  \/ a.year = b.year /\ a.month = b.month /\ a.date = b.date /\ a.time < b.time

\* C27: for a task completed at T, not after today, the next due date is
\* later than T, whatever the frequency text.
C27_NextDueAfterLastCompleted ==
  (/\ returned # <<>>
   /\ args.lastCompleted # <<>>
   /\ ~Before(args.today, args.lastCompleted[1]))
     => Before(args.lastCompleted[1], returned[1])

\* what does hold: the same for every text that is not seasonal and whose
\* pattern has no N = 0
NextDueAfterLastCompletedByInterval ==
  (/\ returned # <<>>
   /\ args.lastCompleted # <<>>
   /\ args.frequency \notin {"Spring & Fall", "Every 0 days"})
     => Before(args.lastCompleted[1], returned[1])

\* the seasonal date already lies before the completion date
SeasonalDateAlreadyPast ==
  /\ returned # <<>>
  /\ args.lastCompleted # <<>>
  /\ args.frequency = "Spring & Fall"
  /\ ~Before(args.today, args.lastCompleted[1])
  /\ Before(returned[1], args.lastCompleted[1])

(***************************************************************************)
(* The status of a completed task (SpecCompletion).                        *)
(***************************************************************************)
\* the signed-in user adds, edits, completes, un-completes and deletes tasks
NextCompletion ==
  \/ \E frequency \in Frequencies, ok \in BOOLEAN : addMaintenanceTask(frequency, ok)
  \/ \E id \in TaskIds, frequency \in Frequencies, ok \in BOOLEAN :
       updateMaintenanceTask(id, frequency, ok)
  \/ \E id \in TaskIds, historyOk \in BOOLEAN, taskOk \in BOOLEAN :
       completeMaintenanceTask(id, historyOk, taskOk)
  \/ \E id \in TaskIds, ok \in BOOLEAN : uncompleteMaintenanceTask(id, ok)
  \/ \E id \in TaskIds, ok \in BOOLEAN : deleteMaintenanceTask(id, ok)

SpecCompletion == InitMaint /\ [][NextCompletion]_vars

\* the task of `tasks` with this id is completed / is not completed
CompletedIn(tasks, id) == \E i \in 1 .. Len(tasks) : tasks[i].id = id /\ tasks[i].completed
OpenIn(tasks, id) == \E i \in 1 .. Len(tasks) : tasks[i].id = id /\ ~tasks[i].completed

\* the completion date the store holds for the task
LastCompletedIn(tasks, id) ==
  LET i == CHOOSE i \in 1 .. Len(tasks) : tasks[i].id = id
  IN tasks[i].last_completed

\* C28: a stored task that is completed has the status 'completed' at every
\* time, before and after its due date; a step after which it is stored as not
\* completed is a call of uncompleteMaintenanceTask for it, and that step leaves
\* the task's last_completed, from which the due date is computed, as it was.
C28_CompletedUntilUncompleted ==
  [][\A id \in TaskIds :
       CompletedIn(maintenanceTasks, id)
          => /\ \A at \in 0 .. MaxDue, nextDue \in {0, now, MaxDue} :
                  calculateTaskStatus(nextDue, TRUE, at) = "completed"
             /\ OpenIn(maintenanceTasks', id)
                  => /\ Called("uncompleteMaintenanceTask")
                     /\ maintLog'.id = id
                     /\ LastCompletedIn(maintenanceTasks', id)
                          = LastCompletedIn(maintenanceTasks, id)]_vars

\* a task that was completed has been un-completed and still has its
\* completion date
C28_Witness ==
  /\ maintLog.op = "uncompleteMaintenanceTask"
  /\ OpenIn(maintenanceTasks, maintLog.id)
  /\ LastCompletedIn(maintenanceTasks, maintLog.id) # 0

(***************************************************************************)
(* SpecSections: the extractor is handed a response that begins with a     *)
(* title line and goes on with section headers, bullets and words in any   *)
(* order.                                                                  *)
(***************************************************************************)
SectionTokens == {"PARTS", "TOOLS", "STEPS", "-", "w", "NL"}

SectionResponses ==
  {<<"ISSUE", "w", "NL">> \o body :
     body \in UNION {[1 .. n -> SectionTokens] : n \in 0 .. MaxResponse + 1}}

InitSections ==
  /\ IdleInit
  /\ args \in SectionResponses
  /\ returned = <<>>

SpecSections == InitSections /\ [][NextExtract]_vars

\* the header occurs at most once in the text
AtMostOnce(text, header) == Cardinality({i \in 1 .. Len(text) : text[i] = header}) <= 1

\* the bullets between a header and the next header of another section
BulletsUnder(text, header) ==
  Bullets(Section(text, header, {"PARTS", "TOOLS", "STEPS"} \ {header}))

\* C29: for a response that holds each section header at most once, in any
\* order, parts_needed are the bullets between REQUIRED PARTS and the next
\* header and tools_needed are the bullets between REQUIRED TOOLS and the next
\* header.
C29_BulletsOfNearestHeader ==
  (/\ returned # <<>>
   /\ returned[1].diagnosis # <<>>
   /\ \A header \in {"PARTS", "TOOLS", "STEPS"} : AtMostOnce(args, header))
     => /\ returned[1].diagnosis[1].parts_needed = BulletsUnder(args, "PARTS")
        /\ returned[1].diagnosis[1].tools_needed = BulletsUnder(args, "TOOLS")

\* REQUIRED PARTS does not come after REQUIRED TOOLS without REPAIR STEPS
\* between the two
ToolsSectionClosed(text) ==
  \A i, j \in 1 .. Len(text) :
     (i < j /\ text[i] = "TOOLS" /\ text[j] = "PARTS")
        => \E k \in i + 1 .. j - 1 : text[k] = "STEPS"

\* what does hold: the same for the responses in which the tools section is
\* closed by REPAIR STEPS or by the end of the response
BulletsOfNearestHeaderInOrder ==
  (/\ returned # <<>>
   /\ returned[1].diagnosis # <<>>
   /\ \A header \in {"PARTS", "TOOLS", "STEPS"} : AtMostOnce(args, header)
   /\ ToolsSectionClosed(args))
     => /\ returned[1].diagnosis[1].parts_needed = BulletsUnder(args, "PARTS")
        /\ returned[1].diagnosis[1].tools_needed = BulletsUnder(args, "TOOLS")

\* the response lists one tool and then one part, and the part is among the
\* tools of the diagnosis
PartAmongTools ==
  /\ args = <<"ISSUE", "w", "NL", "TOOLS", "PARTS", "NL", "-", "w">>
  /\ returned # <<>>
  /\ returned[1].diagnosis[1].tools_needed = << <<"w">> >>
  /\ returned[1].diagnosis[1].parts_needed = << <<"w">> >>

(***************************************************************************)
(* The items the card sends to the shopping list (SpecShop).  Every item   *)
(* of a diagnosis gets a quantity when the diagnosis is found, so an item  *)
(* without quantity is one the user removed.                               *)
(***************************************************************************)
\* the items of a running addPartsToShoppingList that the user had removed
\* when the button was clicked
RemovedItemsSent ==
  IF shopClosure.diagnosisResult = <<>>
  THEN {}
  ELSE {i \in 1 .. Len(itemsWithQuantities(shopClosure)) :
          itemsWithQuantities(shopClosure)[i].name \notin DOMAIN shopClosure.quantities}

\* C30: no item that the user removed from the card is among the items that
\* addPartsToShoppingList passes to the shopping-list service.
C30_RemovedItemNotSent == RemovedItemsSent = {}

\* what does hold: the items passed are all parts and tools of the diagnosis,
\* removed or not, a removed one with quantity 1
AllItemsSent ==
  shopClosure.diagnosisResult # <<>> =>
     /\ Len(itemsWithQuantities(shopClosure)) = Len(AllItems(shopClosure.diagnosisResult[1]))
     /\ \A i \in RemovedItemsSent : itemsWithQuantities(shopClosure)[i].quantity = 1

====
